---- MODULE Spec2Model ----
(***************************************************************************)
(* SmartDoc annotation layer (components/AnnotationLayer.tsx), its         *)
(* geometry predicates (utils/geometry.ts) and the callbacks the host      *)
(* application (SmartDocApp) wires into it.                                *)
(*                                                                         *)
(* Numbers: pointer coordinates are multiples of GridStep.  A circle's     *)
(* radius is sqrt of an integer; the model stores its square (radius2),    *)
(* and compares squared distances, which is the same order on the          *)
(* non-negative reals.                                                     *)
(***************************************************************************)
EXTENDS Integers, Sequences, FiniteSets, TLC

\* ---------------------------------------------------------------- bounds
GridN == 1          \* pointer coordinates are 0, GridStep, .., GridN*GridStep
GridStep == 12      \* spacing of the pointer grid (above the hit threshold)
MaxId == 1          \* at most MaxId ids are ever generated by the layer
MaxShapes == 2      \* ids are generated on top of an initial list shorter than MaxShapes
MaxPenPts == 2      \* a pen in progress collects at most MaxPenPts points
GeoN == 3           \* hit-test probes: coordinates 0, GeoStep, .., GeoN*GeoStep
GeoStep == 6        \* spacing of the probe grid (below the hit threshold)
MaxSaves == 4       \* render passes run while the context holds fewer saved states

\* ------------------------------------------------------- program constants
NullId == 0                     \* null selection / no dragged shape
DefaultThreshold == 10          \* geometry.ts: threshold = 10
DefaultFontSize == 20           \* host: useState<number>(20)
SmallFontSize == 12             \* constants.ts: FONT_SIZES[0]
PlaceholderText == "Enter Text" \* handleMouseDown: text: "Enter Text"

Coords == {i * GridStep : i \in 0..GridN}
Points == [x : Coords, y : Coords]
Tools == {"select", "rect", "circle", "pen", "text", "hand", "arrow"}
DrawTools == {"rect", "circle", "pen", "arrow"}
Modes == {"full", "edit", "viewonly"}
FontSizes == {SmallFontSize, DefaultFontSize}

Null == <<>>                    \* a null Point / Annotation state value
Some(v) == <<v>>

\* ------------------------------------------------------------- shapes
\* One record shape for the tagged union.  A field a kind does not have is
\* left at its zero value: no code reads width, height or radius of a shape
\* of another kind, and the model does not record them there.
Blank ==
  [id |-> NullId, type |-> "none", x |-> 0, y |-> 0, width |-> 0, height |-> 0,
   radius2 |-> 0, points |-> <<>>, text |-> "", fontSize |-> 0, status |-> ""]

\* of the metadata (colour, stroke width, severity, reason code, status,
\* comment) the records carry the status, which the render pass prints
NewStatus == "New"              \* handleMouseDown: status: 'New'

\* pen and arrow objects are the ones built with a points array
HasPoints(ann) == ann.type \in {"pen", "arrow"}

NewRect(id, p) == [Blank EXCEPT !.id = id, !.status = NewStatus, !.type = "rect", !.x = p.x, !.y = p.y]
NewCircle(id, p) == [Blank EXCEPT !.id = id, !.status = NewStatus, !.type = "circle", !.x = p.x, !.y = p.y]
NewPen(id, p) == [Blank EXCEPT !.id = id, !.status = NewStatus, !.type = "pen", !.points = <<p>>]
\* faulty variant: the arrow starts with its first point only
NewArrowOnePoint(id, p) ==
  [Blank EXCEPT !.id = id, !.type = "arrow", !.status = NewStatus, !.points = <<p>>]

NewArrow(id, p) == [Blank EXCEPT !.id = id, !.status = NewStatus, !.type = "arrow", !.points = <<p, p>>]
\* faulty variant: the text is created with the default font size
NewTextDefaultSize(id, p, fs) ==
  [Blank EXCEPT !.id = id, !.type = "text", !.x = p.x, !.y = p.y, !.status = NewStatus,
                !.text = PlaceholderText, !.fontSize = DefaultFontSize]

NewText(id, p, fs) ==
  [Blank EXCEPT !.id = id, !.type = "text", !.x = p.x, !.y = p.y, !.status = NewStatus,
                !.text = PlaceholderText, !.fontSize = fs]

\* the lists a host passes as initialAnnotations (ids of its own)
G == GridStep
P(x, y) == [x |-> x, y |-> y]
HostId1 == 101
HostId2 == 102
HostIds == {HostId1, HostId2}
InitialLists ==
  { <<>>,
    \* one rectangle drawn from its lower right to its upper left corner
    << [NewRect(HostId1, P(G, G)) EXCEPT !.width = -G, !.height = -G] >>,
    \* two overlapping rectangles
    << [NewRect(HostId1, P(0, 0)) EXCEPT !.width = G, !.height = G],
       [NewRect(HostId2, P(0, 0)) EXCEPT !.width = G, !.height = 0] >>,
    \* a circle under a pen path
    << [NewCircle(HostId1, P(0, 0)) EXCEPT !.radius2 = G * G],
       [NewPen(HostId2, P(G, G)) EXCEPT !.points = <<P(G, G), P(G, 0)>>] >>,
    \* an arrow and a text
    << [NewArrow(HostId1, P(0, 0)) EXCEPT !.points = <<P(0, 0), P(G, G)>>],
       NewText(HostId2, P(0, G), DefaultFontSize) >> }

\* ------------------------------------------------------------- geometry
Sq(n) == n * n
Dist2(p, q) == Sq(p.x - q.x) + Sq(p.y - q.y)

isPointInRect(point, rect) ==
  /\ point.x >= rect.x
  /\ point.x <= rect.x + rect.width
  /\ point.y >= rect.y
  /\ point.y <= rect.y + rect.height

\* getDistance(point, center) <= radius, on squares
isPointInCircle(point, circle) == Dist2(point, [x |-> circle.x, y |-> circle.y]) <= circle.radius2

isPointNearPath(point, pen) ==
  IF Len(pen.points) < 2 THEN FALSE
  ELSE \E i \in 1..Len(pen.points) : Dist2(point, pen.points[i]) < Sq(DefaultThreshold)

\* faulty variant: the projection is not clamped (distance to the whole line)
distToLineBelow(p, v, w, bound2) ==
  LET l2 == Dist2(v, w)
      dot == (p.x - v.x) * (w.x - v.x) + (p.y - v.y) * (w.y - v.y)
  IN  IF l2 = 0 THEN Dist2(p, v) < bound2
      ELSE Dist2(p, v) * l2 - Sq(dot) < bound2 * l2

\* distToSegmentSquared(p, v, w) < threshold^2.  With l2 > 0 and
\* t = dot / l2 clamped to [0,1], the squared distance is |p-v|^2 for t = 0,
\* |p-w|^2 for t = 1 and |p-v|^2 - dot^2 / l2 in between; the last comparison
\* is multiplied through by l2.
distToSegmentBelow(p, v, w, bound2) ==
  LET l2 == Dist2(v, w)
      dot == (p.x - v.x) * (w.x - v.x) + (p.y - v.y) * (w.y - v.y)
  IN  IF l2 = 0 THEN Dist2(p, v) < bound2
      ELSE IF dot <= 0 THEN Dist2(p, v) < bound2
      ELSE IF dot >= l2 THEN Dist2(p, w) < bound2
      ELSE Dist2(p, v) * l2 - Sq(dot) < bound2 * l2

isPointNearLine(point, arrow) ==
  IF Len(arrow.points) < 2 THEN FALSE
  ELSE distToSegmentBelow(point, arrow.points[1], arrow.points[2], Sq(DefaultThreshold))

\* ctx.measureText(text).width for the sans-serif font at fontSize px:
\* half an em per character.
measureText(text) == 5 * text.fontSize

isPointInText(point, text) ==
  /\ point.x >= text.x
  /\ point.x <= text.x + measureText(text)
  /\ point.y >= text.y - text.fontSize
  /\ point.y <= text.y

\* the hit dispatch of handleMouseDown (the canvas context is available)
Hit(point, ann) ==
  CASE ann.type = "rect" -> isPointInRect(point, ann)
    [] ann.type = "circle" -> isPointInCircle(point, ann)
    [] ann.type = "pen" -> isPointNearPath(point, ann)
    [] ann.type = "arrow" -> isPointNearLine(point, ann)
    [] ann.type = "text" -> isPointInText(point, ann)
    [] OTHER -> FALSE

\* faulty variant: the loop runs forward, so the bottom-most hit shape wins
FindHitForward(anns, i, point) ==
  IF \E k \in 1..i : Hit(point, anns[k])
  THEN CHOOSE k \in 1..i : Hit(point, anns[k]) /\ \A j \in 1..(k - 1) : ~Hit(point, anns[j])
  ELSE 0

\* the reverse loop of handleMouseDown: first hit index from i down to 1, or 0
RECURSIVE FindHit(_, _, _)
FindHit(anns, i, point) ==
  IF i = 0 THEN 0
  ELSE IF Hit(point, anns[i]) THEN i
  ELSE FindHit(anns, i - 1, point)

\* ---------------------------------------------------------------- state
\* The layer's props tool and fontSize are set by the host's toolbar between
\* pointer events; a handler reads the value current at its event, so they
\* are inputs of the pointer actions.
VARIABLES
  mode,                 \* host prop: "full" | "edit" | "viewonly"
  annotations,          \* host state: the shape list (one document, one page)
  selectedAnnotationId, \* host state
  newAnnotationId,      \* host state: the shape whose details dialog is new
  showCommentModal,     \* host state: the details dialog is open
  isDrawing,            \* layer state
  startPoint,           \* layer state: Null or Some(point)
  currentAnnotation,    \* layer state: Null or Some(shape in progress)
  draggedAnnotationId,  \* layer state
  dragOffset,           \* layer state, kept while draggedAnnotationId is set
  nextId,               \* the next id generateId() returns
  emitted,              \* what the last handler emitted: its callbacks, in order
  gesture,              \* history of the open pointer session (for the claims)
  drawTool,             \* history: the tool at the pointer-down of the Drawing session
  abandoned,            \* history: ids in progress when the tool was switched
  renderScale,          \* layer: min(devicePixelRatio, 3)
  rafQueue,             \* browser: the render callbacks requested for the next frame
  ctx,                  \* canvas context: its transform scale and its stack of saved states
  surface,              \* canvas: what was painted since it was last cleared
  refCurrent,           \* instance: the handle ref is attached (first commit done)
  pendingAnnotations,   \* host: Null or Some(list), a list set through the handle, not yet rendered
  returned,             \* instance: Null or Some(list), what the last getAnnotations() returned
  requested,            \* history: Null or Some(list), the list last handed to setAnnotations()
  canvasRect,           \* layout: canvas.getBoundingClientRect(), in client units
  pageSize,             \* layer props width and height, the logical size of the canvas
  allAnnotations,       \* host state: the shapes of every document and page, as last rendered
  updates,              \* React: the state updates queued since the last render, in order
  currentPage           \* host: the page shown, its documentId and pageNumber

hostVars == <<mode, annotations, selectedAnnotationId, newAnnotationId, showCommentModal>>
layerVars == <<isDrawing, startPoint, currentAnnotation, draggedAnnotationId, dragOffset>>
histVars == <<gesture, drawTool, abandoned>>
frameVars == <<renderScale, rafQueue, ctx, surface>>
apiVars == <<refCurrent, pendingAnnotations, returned, requested>>
viewVars == <<canvasRect, pageSize>>
pageVars == <<allAnnotations, updates, currentPage>>
vars == <<hostVars, layerVars, nextId, emitted, histVars, frameVars, apiVars, viewVars, pageVars>>

isViewOnly == mode = "viewonly"
canDraw == mode = "full"
\* faulty variant: the read-only flag never reaches the layer
readOnlyOff == FALSE

readOnly == isViewOnly          \* layerReadOnly = isViewOnly

Origin == [x |-> 0, y |-> 0]
\* kind "draw": a Drawing session opened from Idle with read-only off, the
\*   tool of every later handler being the one of its pointer-down; A the
\*   pointer-down point, last the latest pointer position, trail the pointer
\*   positions of a pen gesture.
\* kind "drag": a Dragging session; for a pen or an arrow, A the pointer-down
\*   point and trail the points the shape had then.
NoGesture == [kind |-> "none", id |-> NullId, A |-> Origin, last |-> Origin,
              tool |-> "none", trail |-> <<>>]

\* a callback invocation: its name, the id it carries, the shape it carries
\* (created, updated) and the list it carries (change)
Call(cb, id, ann, list) == [cb |-> cb, id |-> id, ann |-> ann, list |-> list]
Logged(c) == [cb |-> c.cb, id |-> c.id, ann |-> c.ann]
Log(calls) == [i \in 1..Len(calls) |-> Logged(calls[i])]
\* an exception left the handler (no callback had been made before it)
Thrown == [cb |-> "throw", id |-> NullId, ann |-> Blank]

CleanCtx == [scale |-> 1, saved |-> <<>>]

\* Spec, GeoSpec and DragSpec follow the handlers of a mounted instance; the
\* frame loop and the instance handle stand still there, and are followed in
\* FrameSpec and ApiSpec.
FrameStill == renderScale = 1 /\ rafQueue = <<>> /\ ctx = CleanCtx /\ surface = <<>>
\* the canvas is displayed at its logical size, at the client origin
UnitView == [left |-> 0, top |-> 0, width |-> 1, height |-> 1]
UnitSize == [width |-> 1, height |-> 1]
HandleStill ==
  /\ refCurrent = TRUE /\ pendingAnnotations = Null /\ returned = Null /\ requested = Null
ApiStill ==
  /\ HandleStill
  /\ canvasRect = UnitView /\ pageSize = UnitSize
\* a shape without a page number belongs to the first page: `a.page || 1`
NoPage == 0
DefaultPage == 1
FirstPage == [documentId |-> "docA", pageNumber |-> DefaultPage]
\* one document of one page, nothing queued
PageStill == allAnnotations = <<>> /\ updates = <<>> /\ currentPage = FirstPage
Still == UNCHANGED <<frameVars, apiVars, viewVars, pageVars>>

Init ==
  /\ FrameStill /\ ApiStill /\ PageStill
  /\ mode \in Modes
  /\ annotations \in InitialLists   \* initialAnnotations
  /\ selectedAnnotationId = NullId
  /\ newAnnotationId = NullId
  /\ showCommentModal = FALSE
  /\ isDrawing = FALSE
  /\ startPoint = Null
  /\ currentAnnotation = Null
  /\ draggedAnnotationId = NullId
  /\ dragOffset = Origin
  /\ nextId = IF Len(annotations) < MaxShapes THEN 1 ELSE MaxId + 1
  /\ emitted = <<>>
  /\ gesture = NoGesture
  /\ drawTool = "none"
  /\ abandoned = {}

\* ------------------------------------------------------- host callbacks
Host == [annotations |-> annotations, selectedAnnotationId |-> selectedAnnotationId,
         newAnnotationId |-> newAnnotationId, showCommentModal |-> showCommentModal]

\* onAnnotationsChange: the shapes of the current page are replaced by the
\* emitted list (every shape of the model is on the current page)
onAnnotationsChange(h, updatedPageAnns) ==
  IF isViewOnly THEN h ELSE [h EXCEPT !.annotations = updatedPageAnns]

onAnnotationCreated(h, ann) ==
  IF ~canDraw THEN h
  ELSE [h EXCEPT !.selectedAnnotationId = ann.id, !.newAnnotationId = ann.id,
                 !.showCommentModal = TRUE]

\* faulty variant: the host drops the selection signal
onSelectDropped(h, id) == h

onSelect(h, id) == [h EXCEPT !.selectedAnnotationId = id]

HostCall(h, c) ==
  CASE c.cb = "change" -> onAnnotationsChange(h, c.list)
    [] c.cb = "created" -> onAnnotationCreated(h, c.ann)
    [] c.cb = "select" -> onSelect(h, c.id)
    [] OTHER -> h               \* updated: events.onAnnotationUpdate, a listener

RECURSIVE HostApply(_, _)
HostApply(h, calls) ==
  IF calls = <<>> THEN h ELSE HostApply(HostCall(h, Head(calls)), Tail(calls))

\* ------------------------------------------------------- layer handlers
Layer == [isDrawing |-> isDrawing, startPoint |-> startPoint,
          currentAnnotation |-> currentAnnotation,
          draggedAnnotationId |-> draggedAnnotationId, dragOffset |-> dragOffset,
          calls |-> <<>>, threw |-> FALSE, usedId |-> FALSE]

Has(anns, id) == \E i \in 1..Len(anns) : anns[i].id = id

\* faulty variant: the first shape of the list is taken, whatever its id
FindFirst(anns, id) == IF anns = <<>> THEN Null ELSE Some(anns[1])

\* annotations.find(a => a.id === id)
Find(anns, id) ==
  IF \E i \in 1..Len(anns) : anns[i].id = id
  THEN Some(anns[CHOOSE i \in 1..Len(anns) :
                   anns[i].id = id /\ \A j \in 1..(i - 1) : anns[j].id # id])
  ELSE Null

\* faulty variant: the offset of every kind is the pointer position
DownOffsetPointer(ann, point, old) == [x |-> point.x, y |-> point.y]

\* setDragOffset at pointer-down, by the kind of the hit shape
DownOffset(ann, point, old) ==
  IF ann.type \in {"rect", "text", "circle"} THEN [x |-> point.x - ann.x, y |-> point.y - ann.y]
  ELSE IF ann.type \in {"pen", "arrow"} THEN [x |-> point.x, y |-> point.y]
  ELSE old

\* faulty variant: the new shape takes the id of a shape of the host
NewShapeSameId(tool, id, point) ==
  CASE tool = "rect" -> Some(NewRect(HostId1, point))
    [] tool = "circle" -> Some(NewCircle(HostId1, point))
    [] tool = "pen" -> Some(NewPen(HostId1, point))
    [] tool = "arrow" -> Some(NewArrow(HostId1, point))
    [] OTHER -> currentAnnotation

NewShape(tool, id, point) ==
  CASE tool = "rect" -> Some(NewRect(id, point))
    [] tool = "circle" -> Some(NewCircle(id, point))
    [] tool = "pen" -> Some(NewPen(id, point))
    [] tool = "arrow" -> Some(NewArrow(id, point))
    [] OTHER -> currentAnnotation

handleMouseDown(tool, fontSize, point) ==
  IF tool = "hand" THEN Layer
  ELSE IF tool = "select" THEN
    LET i == FindHit(annotations, Len(annotations), point) IN
    IF i = 0 THEN [Layer EXCEPT !.calls = <<Call("select", NullId, Blank, <<>>)>>]
    ELSE LET ann == annotations[i]
             sel == <<Call("select", ann.id, Blank, <<>>)>>
         IN  IF readOnly THEN [Layer EXCEPT !.calls = sel]
             ELSE [Layer EXCEPT !.calls = sel,
                                !.draggedAnnotationId = ann.id,
                                !.dragOffset = DownOffset(ann, point, dragOffset)]
  ELSE IF readOnly THEN Layer
  ELSE IF tool = "text" THEN
    LET newAnn == NewText(nextId, point, fontSize) IN
    [Layer EXCEPT !.usedId = TRUE,
                  !.calls = <<Call("change", NullId, Blank, Append(annotations, newAnn)),
                              Call("created", newAnn.id, newAnn, <<>>)>>]
  ELSE [Layer EXCEPT !.isDrawing = TRUE,
                     !.startPoint = Some(point),
                     !.calls = <<Call("select", NullId, Blank, <<>>)>>,
                     !.usedId = TRUE,
                     !.currentAnnotation = NewShape(tool, nextId, point)]

\* faulty variant: only the first point of the path is moved
TranslateFirst(pts, dx, dy) ==
  [i \in 1..Len(pts) |-> IF i = 1 THEN [x |-> pts[i].x + dx, y |-> pts[i].y + dy] ELSE pts[i]]

Translate(pts, dx, dy) == [i \in 1..Len(pts) |-> [x |-> pts[i].x + dx, y |-> pts[i].y + dy]]

\* the map callback of the drag branch of handleMouseMove
DragMove(ann, point) ==
  IF ann.type \in {"rect", "text", "circle"}
  THEN [ann EXCEPT !.x = point.x - dragOffset.x, !.y = point.y - dragOffset.y]
  ELSE IF ann.type \in {"pen", "arrow"}
  THEN [ann EXCEPT !.points = Translate(ann.points, point.x - dragOffset.x, point.y - dragOffset.y)]
  ELSE ann

\* faulty variant: the extents of a rectangle are clamped at zero
DrawMoveClamped(tool, cur, start, point) ==
  LET pos(n) == IF n < 0 THEN 0 ELSE n IN
  CASE tool = "rect" ->
         IF cur.type # "rect" THEN Layer
         ELSE [Layer EXCEPT !.currentAnnotation =
                 Some([cur EXCEPT !.width = pos(point.x - start.x),
                                  !.height = pos(point.y - start.y)])]
    [] tool = "circle" ->
         IF cur.type # "circle" THEN Layer
         ELSE [Layer EXCEPT !.currentAnnotation = Some([cur EXCEPT !.radius2 = Dist2(point, start)])]
    [] tool = "pen" ->
         IF HasPoints(cur)
         THEN [Layer EXCEPT !.currentAnnotation = Some([cur EXCEPT !.points = Append(cur.points, point)])]
         ELSE [Layer EXCEPT !.threw = TRUE]
    [] tool = "arrow" ->
         IF HasPoints(cur)
         THEN [Layer EXCEPT !.currentAnnotation = Some([cur EXCEPT !.points = <<cur.points[1], point>>])]
         ELSE [Layer EXCEPT !.threw = TRUE]
    [] OTHER -> Layer

\* faulty variant: the cast to the tool's shape type converts the shape
DrawMoveRetyped(tool, cur, start, point) ==
  CASE tool = "rect" ->
         [Layer EXCEPT !.currentAnnotation =
            Some([cur EXCEPT !.type = "rect",
                             !.width = point.x - start.x, !.height = point.y - start.y])]
    [] tool = "circle" ->
         [Layer EXCEPT !.currentAnnotation =
            Some([cur EXCEPT !.type = "circle", !.radius2 = Dist2(point, start)])]
    [] tool = "pen" ->
         IF HasPoints(cur)
         THEN [Layer EXCEPT !.currentAnnotation =
                 Some([cur EXCEPT !.type = "pen", !.points = Append(cur.points, point)])]
         ELSE [Layer EXCEPT !.threw = TRUE]
    [] tool = "arrow" ->
         IF HasPoints(cur)
         THEN [Layer EXCEPT !.currentAnnotation =
                 Some([cur EXCEPT !.type = "arrow", !.points = <<cur.points[1], point>>])]
         ELSE [Layer EXCEPT !.threw = TRUE]
    [] OTHER -> Layer

\* the drawing branch of handleMouseMove, by the tool active at the move
DrawMove(tool, cur, start, point) ==
  CASE tool = "rect" ->
         IF cur.type # "rect" THEN Layer
         ELSE [Layer EXCEPT !.currentAnnotation =
                 Some([cur EXCEPT !.width = point.x - start.x, !.height = point.y - start.y])]
    [] tool = "circle" ->
         IF cur.type # "circle" THEN Layer
         ELSE [Layer EXCEPT !.currentAnnotation = Some([cur EXCEPT !.radius2 = Dist2(point, start)])]
    [] tool = "pen" ->
         IF HasPoints(cur)
         THEN [Layer EXCEPT !.currentAnnotation = Some([cur EXCEPT !.points = Append(cur.points, point)])]
         ELSE [Layer EXCEPT !.threw = TRUE]   \* [...undefined]: TypeError
    [] tool = "arrow" ->
         IF HasPoints(cur)
         THEN [Layer EXCEPT !.currentAnnotation = Some([cur EXCEPT !.points = <<cur.points[1], point>>])]
         ELSE [Layer EXCEPT !.threw = TRUE]   \* undefined[0]: TypeError
    [] OTHER -> Layer

\* faulty variant: the handler does not return in pan mode
handleMouseMoveInPan(tool, point) ==
  IF readOnly THEN Layer
  ELSE IF draggedAnnotationId # NullId THEN
    LET updated == [i \in 1..Len(annotations) |->
                      IF annotations[i].id # draggedAnnotationId THEN annotations[i]
                      ELSE DragMove(annotations[i], point)]
        moved == \E i \in 1..Len(annotations) :
                    /\ annotations[i].id = draggedAnnotationId
                    /\ annotations[i].type \in {"pen", "arrow"}
    IN  [Layer EXCEPT !.dragOffset = IF moved THEN [x |-> point.x, y |-> point.y] ELSE dragOffset,
                      !.calls = <<Call("change", NullId, Blank, updated)>>]
  ELSE IF ~isDrawing \/ startPoint = Null \/ currentAnnotation = Null THEN Layer
  ELSE DrawMove(tool, currentAnnotation[1], startPoint[1], point)

handleMouseMove(tool, point) ==
  IF tool = "hand" THEN Layer
  ELSE IF readOnly THEN Layer
  ELSE IF draggedAnnotationId # NullId THEN
    LET updated == [i \in 1..Len(annotations) |->
                      IF annotations[i].id # draggedAnnotationId THEN annotations[i]
                      ELSE DragMove(annotations[i], point)]
        moved == \E i \in 1..Len(annotations) :
                    /\ annotations[i].id = draggedAnnotationId
                    /\ annotations[i].type \in {"pen", "arrow"}
    IN  [Layer EXCEPT !.dragOffset = IF moved THEN [x |-> point.x, y |-> point.y] ELSE dragOffset,
                      !.calls = <<Call("change", NullId, Blank, updated)>>]
  ELSE IF ~isDrawing \/ startPoint = Null \/ currentAnnotation = Null THEN Layer
  ELSE DrawMove(tool, currentAnnotation[1], startPoint[1], point)

\* faulty variant: the commit leaves the Drawing session open
handleMouseUpNoReset(tool) ==
  IF tool = "hand" THEN Layer
  ELSE
    LET draggedAnn == IF draggedAnnotationId # NullId THEN Find(annotations, draggedAnnotationId)
                      ELSE Null
        upd == IF draggedAnn # Null
               THEN <<Call("updated", draggedAnn[1].id, draggedAnn[1], <<>>)>> ELSE <<>>
        L == [Layer EXCEPT !.draggedAnnotationId = NullId, !.dragOffset = Origin]
    IN  IF ~isDrawing THEN [L EXCEPT !.calls = upd]
        ELSE IF currentAnnotation # Null THEN
          LET newAnn == currentAnnotation[1] IN
          [L EXCEPT !.calls = upd \o <<Call("change", NullId, Blank, Append(annotations, newAnn)),
                                       Call("created", newAnn.id, newAnn, <<>>),
                                       Call("select", newAnn.id, Blank, <<>>)>>]
        ELSE [L EXCEPT !.isDrawing = FALSE, !.startPoint = Null, !.calls = upd]

\* handleMouseUp.  dragOffset is read only while draggedAnnotationId is set,
\* and every pointer-down that sets draggedAnnotationId sets dragOffset with
\* it; the model returns it to its initial value when the drag session ends.
handleMouseUp(tool) ==
  IF tool = "hand" THEN Layer
  ELSE
    LET draggedAnn == IF draggedAnnotationId # NullId THEN Find(annotations, draggedAnnotationId)
                      ELSE Null
        upd == IF draggedAnn # Null
               THEN <<Call("updated", draggedAnn[1].id, draggedAnn[1], <<>>)>> ELSE <<>>
        L == [Layer EXCEPT !.draggedAnnotationId = NullId, !.dragOffset = Origin]
    IN  IF ~isDrawing THEN [L EXCEPT !.calls = upd]
        ELSE IF currentAnnotation # Null THEN
          LET newAnn == currentAnnotation[1] IN
          [L EXCEPT !.isDrawing = FALSE,
                    !.currentAnnotation = Null,
                    !.startPoint = Null,
                    !.calls = upd \o <<Call("change", NullId, Blank, Append(annotations, newAnn)),
                                       Call("created", newAnn.id, newAnn, <<>>),
                                       Call("select", newAnn.id, Blank, <<>>)>>]
        ELSE [L EXCEPT !.isDrawing = FALSE, !.startPoint = Null, !.calls = upd]

\* the state after a layer handler returned result r (its state updates and
\* the host's handling of its callbacks)
Commit(r) ==
  LET h == HostApply(Host, r.calls) IN
  /\ isDrawing' = r.isDrawing
  /\ startPoint' = r.startPoint
  /\ currentAnnotation' = r.currentAnnotation
  /\ draggedAnnotationId' = r.draggedAnnotationId
  /\ dragOffset' = r.dragOffset
  /\ annotations' = h.annotations
  /\ selectedAnnotationId' = h.selectedAnnotationId
  /\ newAnnotationId' = h.newAnnotationId
  /\ showCommentModal' = h.showCommentModal
  /\ nextId' = IF r.usedId THEN nextId + 1 ELSE nextId
  /\ emitted' = Log(r.calls) \o (IF r.threw THEN <<Thrown>> ELSE <<>>)
  /\ UNCHANGED mode

\* ------------------------------------------------------------- history
Idle == ~isDrawing /\ currentAnnotation = Null /\ draggedAnnotationId = NullId

GestureAfterDown(tool, point) ==
  LET i == FindHit(annotations, Len(annotations), point) IN
  IF tool = "hand" THEN gesture
  ELSE IF tool \in DrawTools /\ ~readOnly /\ Idle
  THEN [kind |-> "draw", id |-> nextId, A |-> point, last |-> point, tool |-> tool,
        trail |-> IF tool = "pen" THEN <<point>> ELSE <<>>]
  ELSE IF tool = "select" /\ ~readOnly /\ i # 0
  THEN IF HasPoints(annotations[i])
       THEN [NoGesture EXCEPT !.kind = "drag", !.id = annotations[i].id, !.A = point,
                              !.trail = annotations[i].points]
       ELSE [NoGesture EXCEPT !.kind = "drag", !.id = annotations[i].id]
  ELSE IF gesture.kind = "drag" THEN gesture
  ELSE NoGesture

\* a draw gesture is followed while the tool stays the one of its pointer-down
GestureAfterMove(tool, point) ==
  IF gesture.kind = "draw" /\ (tool # gesture.tool \/ readOnly) THEN NoGesture
  ELSE IF gesture.kind # "draw" THEN gesture
  ELSE [gesture EXCEPT !.last = point,
                       !.trail = IF tool = "pen" THEN Append(@, point) ELSE @]

GestureAfterUp(tool) == IF tool = "hand" /\ gesture.kind = "drag" THEN gesture ELSE NoGesture

\* the tool differs from the one the open Drawing session started with
Switched(tool) == currentAnnotation # Null /\ tool # drawTool

AbandonedAfter(tool) ==
  IF Switched(tool) THEN abandoned \cup {currentAnnotation[1].id} ELSE abandoned

\* ------------------------------------------------------------- actions
\* the details dialog is a full-viewport overlay: while it is open no pointer
\* press, move or release reaches the canvas
CanvasReachable == ~showCommentModal

CanGenerateId == nextId <= MaxId

MouseDown(tool, fontSize, point) ==
  /\ CanvasReachable
  /\ LET r == handleMouseDown(tool, fontSize, point) IN
     /\ r.usedId => CanGenerateId
     /\ Commit(r)
     /\ drawTool' = IF r.isDrawing /\ r.usedId THEN tool ELSE drawTool
  /\ gesture' = GestureAfterDown(tool, point)
  /\ abandoned' = AbandonedAfter(tool)

\* the move would append a point to a path that holds MaxPenPts already
PenFull(tool) ==
  /\ tool = "pen" /\ ~readOnly /\ draggedAnnotationId = NullId
  /\ isDrawing /\ startPoint # Null /\ currentAnnotation # Null
  /\ Len(currentAnnotation[1].points) >= MaxPenPts

\* the anchor coordinates of a shape lie on the canvas
OnCanvas(ann) ==
  /\ ann.x \in Coords /\ ann.y \in Coords
  /\ \A i \in 1..Len(ann.points) : ann.points[i] \in Points

MouseMove(tool, point) ==
  /\ CanvasReachable
  /\ ~PenFull(tool)
  /\ LET r == handleMouseMove(tool, point) IN
     /\ \A i \in 1..Len(r.calls) : r.calls[i].cb = "change" =>
           \A j \in 1..Len(r.calls[i].list) : OnCanvas(r.calls[i].list[j])
     /\ Commit(r)
  /\ gesture' = GestureAfterMove(tool, point)
  /\ abandoned' = AbandonedAfter(tool)
  /\ UNCHANGED drawTool

PointerUp(tool) ==
  /\ Commit(handleMouseUp(tool))
  /\ gesture' = GestureAfterUp(tool)
  /\ abandoned' = AbandonedAfter(tool)
  /\ drawTool' = IF tool = "hand" THEN drawTool ELSE "none"

MouseUp(tool) ==
  /\ CanvasReachable
  /\ PointerUp(tool)

\* onMouseLeave={handleMouseUp}; the pointer also leaves the canvas when the
\* dialog covers it
MouseLeave(tool) == PointerUp(tool)

\* the mode prop of the host changes
SetMode(m) ==
  /\ m # mode
  /\ mode' = m
  /\ emitted' = <<>>
  /\ gesture' = IF gesture.kind = "draw" /\ m = "viewonly" THEN NoGesture ELSE gesture
  /\ UNCHANGED <<annotations, selectedAnnotationId, newAnnotationId,
                 showCommentModal, layerVars, nextId, drawTool, abandoned>>

\* faulty variant: the first shape is removed, whatever its id
RemoveFirst(anns, id) == IF anns = <<>> THEN anns ELSE Tail(anns)

Remove(anns, id) == SelectSeq(anns, LAMBDA a : a.id # id)

deleteAnnotation(id) ==
  IF isViewOnly
  THEN [annotations |-> annotations, selectedAnnotationId |-> selectedAnnotationId,
        calls |-> <<>>]
  ELSE [annotations |-> Remove(annotations, id),
        selectedAnnotationId |-> IF selectedAnnotationId = id THEN NullId
                                 ELSE selectedAnnotationId,
        calls |-> <<Call("deleted", id, Blank, <<>>)>>]

\* delete requested from the toolbar, the context menu or the details dialog
DeleteAnnotation(id) ==
  /\ LET r == deleteAnnotation(id) IN
     /\ annotations' = r.annotations
     /\ selectedAnnotationId' = r.selectedAnnotationId
     /\ emitted' = Log(r.calls)
  /\ UNCHANGED <<mode, newAnnotationId, showCommentModal, layerVars, nextId, histVars>>

handleCancelModal ==
  IF newAnnotationId # NullId /\ selectedAnnotationId = newAnnotationId
  THEN [annotations |-> Remove(annotations, newAnnotationId), selectedAnnotationId |-> NullId]
  ELSE [annotations |-> annotations, selectedAnnotationId |-> selectedAnnotationId]

CancelModal ==
  /\ showCommentModal
  /\ annotations' = handleCancelModal.annotations
  /\ selectedAnnotationId' = handleCancelModal.selectedAnnotationId
  /\ newAnnotationId' = NullId
  /\ showCommentModal' = FALSE
  /\ emitted' = <<>>
  /\ UNCHANGED <<mode, layerVars, nextId, histVars>>

\* the form of the details dialog, as the host's last render filled it
\* (initialData); of its fields the shape records of the model carry type and
\* text, and the user saves them as they are
initialData ==
  LET a == Find(annotations, selectedAnnotationId) IN
  IF a = Null THEN [type |-> "none", text |-> ""]
  ELSE [type |-> a[1].type, text |-> a[1].text]

\* faulty variant: the saved form turns the shape into a text
SaveMergeAsText(a, data) == [a EXCEPT !.type = "text", !.text = data.text]

\* { ...a, ...data, color }
SaveMerge(a, data) == [a EXCEPT !.type = data.type, !.text = data.text]

\* handleSaveModal.  The updater passed to setAnnotations assigns
\* updatedAnnotation; React runs an updater within the setAnnotations call
\* only when the component has no update pending (eager), and otherwise at the
\* next render, after the handler has read updatedAnnotation as undefined.
handleSaveModal(data, eager) ==
  LET found == selectedAnnotationId # NullId /\ Has(annotations, selectedAnnotationId)
      updatedAnnotation == SaveMerge(Find(annotations, selectedAnnotationId)[1], data)
  IN  [annotations |->
         IF selectedAnnotationId = NullId THEN annotations
         ELSE [i \in 1..Len(annotations) |->
                 IF annotations[i].id = selectedAnnotationId
                 THEN SaveMerge(annotations[i], data) ELSE annotations[i]],
       calls |->
         IF ~found \/ ~eager THEN <<>>
         ELSE IF selectedAnnotationId = newAnnotationId
         THEN <<Call("added", updatedAnnotation.id, updatedAnnotation, <<>>)>>
         ELSE <<Call("updated", updatedAnnotation.id, updatedAnnotation, <<>>)>>]

SaveModal ==
  /\ showCommentModal
  /\ ~isViewOnly                \* the Save button is rendered when not read-only
  /\ \E eager \in BOOLEAN :
       LET r == handleSaveModal(initialData, eager) IN
       /\ annotations' = r.annotations
       /\ emitted' = Log(r.calls)
  /\ newAnnotationId' = NullId
  /\ showCommentModal' = FALSE
  /\ UNCHANGED <<mode, selectedAnnotationId, layerVars, nextId, histVars>>

AllIds == (1..MaxId) \cup HostIds

Next ==
  \/ Still /\ \E tool \in Tools \ {"text"}, point \in Points : MouseDown(tool, DefaultFontSize, point)
  \/ Still /\ \E fontSize \in FontSizes, point \in Points : MouseDown("text", fontSize, point)
  \/ Still /\ \E tool \in Tools, point \in Points : MouseMove(tool, point)
  \/ Still /\ \E tool \in Tools : MouseUp(tool)
  \/ Still /\ \E tool \in Tools : MouseLeave(tool)
  \/ Still /\ \E m \in Modes : SetMode(m)
  \/ Still /\ \E id \in AllIds : DeleteAnnotation(id)
  \/ Still /\ CancelModal
  \/ Still /\ SaveModal

Spec == Init /\ [][Next]_vars

\* ------------------------------------------------- hit tests on a finer grid
\* One shape, as a draw gesture from A to B leaves it (a pen of one or two
\* points), probed by select-mode pointer-downs.
GeoCoords == {i * GeoStep : i \in 0..GeoN}
GeoPoints == [x : GeoCoords, y : GeoCoords]
GeoShapes ==
  UNION { { [NewRect(HostId1, A) EXCEPT !.width = B.x - A.x, !.height = B.y - A.y],
            [NewArrow(HostId1, A) EXCEPT !.points = <<A, B>>],
            [NewPen(HostId1, A) EXCEPT !.points = IF A = B THEN <<A>> ELSE <<A, B>>] }
          : A \in GeoPoints, B \in GeoPoints }

GeoInit ==
  /\ FrameStill /\ ApiStill /\ PageStill
  /\ mode \in Modes
  /\ annotations \in {<<shape>> : shape \in GeoShapes}
  /\ selectedAnnotationId = NullId
  /\ newAnnotationId = NullId
  /\ showCommentModal = FALSE
  /\ isDrawing = FALSE
  /\ startPoint = Null
  /\ currentAnnotation = Null
  /\ draggedAnnotationId = NullId
  /\ dragOffset = Origin
  /\ nextId = 1
  /\ emitted = <<>>
  /\ gesture = NoGesture
  /\ drawTool = "none"
  /\ abandoned = {}

GeoNext == Still /\ \E point \in GeoPoints : MouseDown("select", DefaultFontSize, point)

GeoSpec == GeoInit /\ [][GeoNext]_vars

\* ------------------------------------------- dragging a circle, off the grid
\* One circle of centre (50,50) and radius 20, pressed, dragged and released
\* in select mode at pointer positions with coordinates 50, 55, 95 and 100.
DragCoords == {50, 55, 95, 100}
DragPoints == [x : DragCoords, y : DragCoords]
DragCircle == [NewCircle(HostId1, P(50, 50)) EXCEPT !.radius2 = 20 * 20]

DragInit ==
  /\ FrameStill /\ ApiStill /\ PageStill
  /\ mode \in Modes \ {"viewonly"}
  /\ annotations = <<DragCircle>>
  /\ selectedAnnotationId = NullId
  /\ newAnnotationId = NullId
  /\ showCommentModal = FALSE
  /\ isDrawing = FALSE
  /\ startPoint = Null
  /\ currentAnnotation = Null
  /\ draggedAnnotationId = NullId
  /\ dragOffset = Origin
  /\ nextId = 1
  /\ emitted = <<>>
  /\ gesture = NoGesture
  /\ drawTool = "none"
  /\ abandoned = {}

\* onMouseMove={handleMouseMove}, the pointer anywhere on the page
DragPointerMove(point) ==
  /\ CanvasReachable
  /\ Commit(handleMouseMove("select", point))
  /\ gesture' = GestureAfterMove("select", point)
  /\ abandoned' = AbandonedAfter("select")
  /\ UNCHANGED drawTool

DragNext ==
  \/ Still /\ \E point \in DragPoints : MouseDown("select", DefaultFontSize, point)
  \/ Still /\ \E point \in DragPoints : DragPointerMove(point)
  \/ Still /\ MouseUp("select")

DragSpec == DragInit /\ [][DragNext]_vars

\* ------------------------------------------------------- the render pass
\* ctx.save() and ctx.restore(); of the context state the model follows the
\* transform, a uniform scale
Save(c) == [c EXCEPT !.saved = Append(@, c.scale)]
Restore(c) ==
  IF c.saved = <<>> THEN c
  ELSE [scale |-> c.saved[Len(c.saved)], saved |-> SubSeq(c.saved, 1, Len(c.saved) - 1)]

\* one painting command as it reaches the surface: the shape it draws, the
\* transform scale it is drawn under, and whether the selection glow is on
Stroke(op, ann, c, selectedId) ==
  [op |-> op, ann |-> ann, scale |-> c.scale, glow |-> ann.id = selectedId]

\* the body of the forEach of renderCanvas for one shape (a text of one line)
DrawShape(ann, c, selectedId) ==
  LET geometry ==
        CASE ann.type = "rect" -> <<Stroke("strokeRect", ann, c, selectedId)>>
          [] ann.type = "circle" -> <<Stroke("arc", ann, c, selectedId)>>
          [] ann.type = "pen" ->
               IF Len(ann.points) > 0 THEN <<Stroke("path", ann, c, selectedId)>> ELSE <<>>
          [] ann.type = "arrow" ->
               <<Stroke("line", ann, c, selectedId), Stroke("head", ann, c, selectedId)>>
          [] ann.type = "text" ->
               <<Stroke("text", ann, c, selectedId)>>
               \o (IF ann.id = selectedId THEN <<Stroke("box", ann, c, selectedId)>> ELSE <<>>)
          [] OTHER -> <<>>
      \* the [status] comment line above the anchor of a shape that is no text
      overlay ==
        IF ann.type # "text" /\ ann.status # ""
        THEN <<Stroke("overlay", ann, c, selectedId)>> ELSE <<>>
  IN  IF ann.type = "arrow" /\ Len(ann.points) < 2
      THEN [items |-> <<>>, threw |-> TRUE]      \* end.x of undefined: TypeError
      ELSE [items |-> geometry \o overlay, threw |-> FALSE]

\* faulty variant: the shapes are painted from the last to the first
RECURSIVE DrawAllReversed(_, _, _, _)
DrawAllReversed(shapes, c, selectedId, painted) ==
  IF shapes = <<>> THEN [items |-> painted, ctx |-> c, threw |-> FALSE]
  ELSE CHOOSE pass \in
         { IF d.threw THEN [items |-> painted, ctx |-> saved, threw |-> TRUE]
           ELSE DrawAllReversed(SubSeq(shapes, 1, Len(shapes) - 1), Restore(saved),
                                selectedId, painted \o d.items)
           : saved \in {Save(c)},
             d \in {DrawShape(shapes[Len(shapes)], Save(c), selectedId)} } : TRUE

\* the forEach: save, draw, restore for each shape; an exception leaves the
\* loop and the pass with the context as it is then (saved and d are the
\* context after ctx.save() and the outcome of the body, each computed once)
RECURSIVE DrawAll(_, _, _, _)
DrawAll(shapes, c, selectedId, painted) ==
  IF shapes = <<>> THEN [items |-> painted, ctx |-> c, threw |-> FALSE]
  ELSE CHOOSE pass \in
         { IF d.threw THEN [items |-> painted, ctx |-> saved, threw |-> TRUE]
           ELSE DrawAll(Tail(shapes), Restore(saved), selectedId, painted \o d.items)
           : saved \in {Save(c)},
             d \in {DrawShape(Head(shapes), Save(c), selectedId)} } : TRUE

\* renderCanvas as the closure deps holds it: clearRect (it clears the whole
\* buffer under any scale >= 1), save, scale(renderScale), the shapes of
\* [...annotations, currentAnnotation], restore
renderCanvas(deps, c, rs) ==
  LET scaled == [Save(c) EXCEPT !.scale = @ * rs]
      d == DrawAll(deps.annotations \o deps.currentAnnotation, scaled, deps.selectedId, <<>>)
  IN  [surface |-> d.items, ctx |-> IF d.threw THEN d.ctx ELSE Restore(d.ctx), threw |-> d.threw]

\* the values renderCanvas closes over (useCallback dependencies; width and
\* height are fixed)
Deps == [annotations |-> annotations, currentAnnotation |-> currentAnnotation,
         selectedId |-> selectedAnnotationId]

\* faulty variant: the effect has no cleanup
cancelNothing(q) == q

\* the cleanup of the effect: cancelAnimationFrame(requestRef.current), the
\* request made last, if it is still pending
cancelAnimationFrame(q) == IF q = <<>> THEN q ELSE SubSeq(q, 1, Len(q) - 1)

\* useEffect(..., [renderCanvas]) after a handler: a re-render that made a new
\* renderCanvas cancels the pending request and requests a frame for the new
\* one.  Every change of a dependency makes a new renderCanvas; so may a
\* re-render of the host that changes none (the list it passes is filtered
\* anew at each of its renders).
Effect ==
  /\ \/ rafQueue' = Append(cancelAnimationFrame(rafQueue), Deps')
     \/ Deps' = Deps /\ rafQueue' = rafQueue
  /\ UNCHANGED <<renderScale, ctx, surface>>

\* an animation frame: the browser runs the callback requested first
Frame ==
  /\ rafQueue # <<>>
  /\ Len(ctx.saved) < MaxSaves
  /\ rafQueue' = Tail(rafQueue)
  /\ UNCHANGED <<hostVars, layerVars, nextId, histVars, renderScale, apiVars, viewVars, pageVars>>
  /\ LET r == renderCanvas(Head(rafQueue), ctx, renderScale) IN
     /\ surface' = r.surface
     /\ ctx' = r.ctx
     /\ emitted' = IF r.threw THEN <<Thrown>> ELSE <<>>

\* lists with shapes the layer itself never makes
PenEmpty == [NewPen(HostId1, Origin) EXCEPT !.points = <<>>]
UnknownKind == [Blank EXCEPT !.id = HostId1, !.type = "stamp", !.status = NewStatus]
ShortArrow == [NewArrow(HostId1, Origin) EXCEPT !.points = <<Origin>>]
Rect2 == [NewRect(HostId2, Origin) EXCEPT !.width = G, !.height = G]
FrameLists ==
  { <<Rect2, PenEmpty>>,
    <<Rect2, [PenEmpty EXCEPT !.status = ""]>>,
    <<UnknownKind, Rect2>>,
    <<ShortArrow, Rect2>>,
    <<[NewCircle(HostId1, Origin) EXCEPT !.radius2 = G * G], NewText(HostId2, P(0, G), DefaultFontSize)>> }

FrameInit ==
  /\ ApiStill /\ PageStill
  /\ mode = "edit"                  \* no details dialog opens
  /\ annotations \in FrameLists
  /\ selectedAnnotationId = NullId
  /\ newAnnotationId = NullId
  /\ showCommentModal = FALSE
  /\ isDrawing = FALSE
  /\ startPoint = Null
  /\ currentAnnotation = Null
  /\ draggedAnnotationId = NullId
  /\ dragOffset = Origin
  /\ nextId = 1
  /\ emitted = <<>>
  /\ gesture = NoGesture
  /\ drawTool = "none"
  /\ abandoned = {}
  /\ renderScale \in {1, 2}
  /\ rafQueue = <<Deps>>            \* the effect of the mount
  /\ ctx = CleanCtx
  /\ surface = <<>>

\* a handler, the re-render it causes and the effect of that re-render
Reacting(Handler) == Handler /\ Effect /\ UNCHANGED <<apiVars, viewVars, pageVars>>

\* the pointer positions of the frame loop's runs
FramePoints == {Origin, P(G, G)}

FrameNext ==
  \/ Reacting(\E tool \in {"select", "rect"}, point \in FramePoints : MouseDown(tool, DefaultFontSize, point))
  \/ Reacting(\E tool \in {"select", "rect"}, point \in FramePoints : MouseMove(tool, point))
  \/ Reacting(\E tool \in {"select", "rect"} : MouseUp(tool))
  \/ Frame

FrameSpec == FrameInit /\ [][FrameNext]_vars

\* the browser runs a requested frame callback unless it is cancelled
FairFrameSpec == FrameSpec /\ WF_vars(Frame)

\* ------------------------------------------- client to canvas coordinates
\* the canvas on the screen: its bounding rectangle in client units (it moves
\* with scrolling and is resized by the zoom), its logical size, and the
\* client positions of the pointer
ViewLefts == {0, 4}
ViewTops == {6}
ViewWidths == {12, 36}
ViewHeights == {12, 24}
PageSizes == {[width |-> 24, height |-> 12], [width |-> 12, height |-> 12]}
CanvasRects == [left : ViewLefts, top : ViewTops, width : ViewWidths, height : ViewHeights]
ClientXs == {4, 10, 22}
ClientYs == {6, 18}
ClientEvents == [clientX : ClientXs, clientY : ClientYs]
RenderScales == {1, 2}

\* a quotient of two numbers, and a number times a quotient
Quot(a, b) == [num |-> a, den |-> b]
TimesQuot(n, q) == (n * q.num) \div q.den

\* faulty variant: the scale is taken from the size of the backing store,
\* canvas.width = width * renderScale
getCanvasPointBacking(e) ==
  LET scaleX == Quot(pageSize.width * renderScale, canvasRect.width)
      scaleY == Quot(pageSize.height * renderScale, canvasRect.height)
  IN  P(TimesQuot(e.clientX - canvasRect.left, scaleX),
        TimesQuot(e.clientY - canvasRect.top, scaleY))

getCanvasPoint(e) ==
  LET scaleX == Quot(pageSize.width, canvasRect.width)
      scaleY == Quot(pageSize.height, canvasRect.height)
  IN  P(TimesQuot(e.clientX - canvasRect.left, scaleX),
        TimesQuot(e.clientY - canvasRect.top, scaleY))

\* the pointer is over the canvas, at a whole number of logical units
OverCanvas(e) ==
  /\ e.clientX >= canvasRect.left /\ e.clientX <= canvasRect.left + canvasRect.width
  /\ e.clientY >= canvasRect.top /\ e.clientY <= canvasRect.top + canvasRect.height
  /\ ((e.clientX - canvasRect.left) * pageSize.width) % canvasRect.width = 0
  /\ ((e.clientY - canvasRect.top) * pageSize.height) % canvasRect.height = 0

\* onMouseDown and onMouseMove with the mouse event e
ClientDown(tool, e) ==
  /\ OverCanvas(e)
  /\ MouseDown(tool, DefaultFontSize, getCanvasPoint(e))
ClientMove(tool, e) ==
  /\ OverCanvas(e)
  /\ CanvasReachable
  /\ Commit(handleMouseMove(tool, getCanvasPoint(e)))
  /\ gesture' = GestureAfterMove(tool, getCanvasPoint(e))
  /\ abandoned' = AbandonedAfter(tool)
  /\ UNCHANGED drawTool

\* the page is scrolled or zoomed
Relayout ==
  /\ canvasRect' \in CanvasRects \ {canvasRect}
  /\ UNCHANGED <<hostVars, layerVars, nextId, emitted, histVars, frameVars, apiVars, pageSize, pageVars>>

ViewInit ==
  /\ renderScale \in RenderScales /\ rafQueue = <<>> /\ ctx = CleanCtx /\ surface = <<>>
  /\ HandleStill /\ PageStill
  /\ canvasRect \in CanvasRects
  /\ pageSize \in PageSizes
  /\ mode = "edit"
  /\ annotations = <<>>
  /\ selectedAnnotationId = NullId
  /\ newAnnotationId = NullId
  /\ showCommentModal = FALSE
  /\ isDrawing = FALSE
  /\ startPoint = Null
  /\ currentAnnotation = Null
  /\ draggedAnnotationId = NullId
  /\ dragOffset = Origin
  /\ nextId = 1
  /\ emitted = <<>>
  /\ gesture = NoGesture
  /\ drawTool = "none"
  /\ abandoned = {}

ViewNext ==
  \/ Still /\ \E e \in ClientEvents : ClientDown("rect", e)
  \/ Still /\ \E e \in ClientEvents : ClientMove("rect", e)
  \/ Still /\ MouseUp("rect")
  \/ Relayout

ViewSpec == ViewInit /\ [][ViewNext]_vars

\* ------------------------------------------------- the instance handle
\* createSmartDoc has returned: root.render was called, the first commit of
\* the component (which attaches the ref) has not happened yet.  The handle
\* of the component is rebuilt at every commit and closes over the list of
\* that render.
getAnnotations == IF refCurrent THEN annotations ELSE <<>>
setAnnotations(anns) == IF refCurrent THEN Some(anns) ELSE pendingAnnotations

ApiKeep == UNCHANGED <<mode, selectedAnnotationId, newAnnotationId, showCommentModal,
                       layerVars, nextId, emitted, histVars, frameVars, viewVars, pageVars>>

\* React commits the first render of the component
FirstCommit ==
  /\ ~refCurrent
  /\ refCurrent' = TRUE
  /\ UNCHANGED <<annotations, pendingAnnotations, returned, requested>>
  /\ ApiKeep

\* React renders the component with the state update applied
Rerender ==
  /\ refCurrent /\ pendingAnnotations # Null
  /\ annotations' = pendingAnnotations[1]
  /\ pendingAnnotations' = Null
  /\ UNCHANGED <<refCurrent, returned, requested>>
  /\ ApiKeep

\* the integrator calls instance.setAnnotations(anns)
SetAnnotations(anns) ==
  /\ pendingAnnotations' = setAnnotations(anns)
  /\ requested' = Some(anns)
  /\ UNCHANGED <<annotations, refCurrent, returned>>
  /\ ApiKeep

\* the integrator calls instance.getAnnotations()
GetAnnotations ==
  /\ returned' = Some(getAnnotations)
  /\ UNCHANGED <<annotations, refCurrent, pendingAnnotations, requested>>
  /\ ApiKeep

ApiInit ==
  /\ FrameStill /\ PageStill
  /\ canvasRect = UnitView /\ pageSize = UnitSize
  /\ refCurrent = FALSE /\ pendingAnnotations = Null /\ returned = Null /\ requested = Null
  /\ mode \in Modes
  /\ annotations \in InitialLists          \* config.initialAnnotations
  /\ selectedAnnotationId = NullId
  /\ newAnnotationId = NullId
  /\ showCommentModal = FALSE
  /\ isDrawing = FALSE
  /\ startPoint = Null
  /\ currentAnnotation = Null
  /\ draggedAnnotationId = NullId
  /\ dragOffset = Origin
  /\ nextId = 1
  /\ emitted = <<>>
  /\ gesture = NoGesture
  /\ drawTool = "none"
  /\ abandoned = {}

ApiNext ==
  \/ FirstCommit
  \/ Rerender
  \/ \E anns \in InitialLists : SetAnnotations(anns)
  \/ GetAnnotations

ApiSpec == ApiInit /\ [][ApiNext]_vars

\* ------------------------------------------ sessions over a shape to hit
\* One rectangle of the host that a select-mode pointer-down hits, and the
\* toolbar moving between select, rectangle and pan between pointer events.
SessionTools == {"select", "rect", "hand"}
SessionRect == [NewRect(HostId1, Origin) EXCEPT !.width = G, !.height = G]

SessionInit ==
  /\ FrameStill /\ ApiStill /\ PageStill
  /\ mode = "edit"                  \* no details dialog opens
  /\ annotations = <<SessionRect>>
  /\ selectedAnnotationId = NullId
  /\ newAnnotationId = NullId
  /\ showCommentModal = FALSE
  /\ isDrawing = FALSE
  /\ startPoint = Null
  /\ currentAnnotation = Null
  /\ draggedAnnotationId = NullId
  /\ dragOffset = Origin
  /\ nextId = 1
  /\ emitted = <<>>
  /\ gesture = NoGesture
  /\ drawTool = "none"
  /\ abandoned = {}

SessionNext ==
  \/ Still /\ \E tool \in SessionTools, point \in Points : MouseDown(tool, DefaultFontSize, point)
  \/ Still /\ \E tool \in SessionTools, point \in Points : MouseMove(tool, point)
  \/ Still /\ \E tool \in SessionTools : MouseUp(tool)

SessionSpec == SessionInit /\ [][SessionNext]_vars

\* ------------------------------------------- the host around the layer
\* The operations of the host on its list and its selection next to the
\* pointer handlers: the toolbar (edit selected, clear all), the instance
\* handle of a mounted component (each call followed by its render) and the
\* loading of a document.
HostTools == {"select", "rect"}
HostLists == {<<>>, <<SessionRect>>}
Cleared == <<Call("cleared", NullId, Blank, <<>>)>>

HostKeep == UNCHANGED <<mode, newAnnotationId, layerVars, nextId, histVars>>

\* onEditSelected / onEdit: setShowCommentModal(true), offered while a shape
\* is selected
EditSelected ==
  /\ ~showCommentModal /\ selectedAnnotationId # NullId
  /\ showCommentModal' = TRUE
  /\ emitted' = <<>>
  /\ UNCHANGED <<annotations, selectedAnnotationId>>
  /\ HostKeep

\* the toolbar's Clear All
ClearAll ==
  /\ ~showCommentModal
  /\ annotations' = <<>>
  /\ emitted' = Log(Cleared)
  /\ UNCHANGED <<selectedAnnotationId, showCommentModal>>
  /\ HostKeep

\* handle.setAnnotations(anns)
InstanceSetAnnotations(anns) ==
  /\ annotations' = anns
  /\ emitted' = <<>>
  /\ UNCHANGED <<selectedAnnotationId, showCommentModal>>
  /\ HostKeep

\* handle.clearAnnotations()
InstanceClearAnnotations ==
  /\ annotations' = <<>>
  /\ selectedAnnotationId' = NullId
  /\ emitted' = Log(Cleared)
  /\ UNCHANGED showCommentModal
  /\ HostKeep

\* loadDocumentsFromUrls with shouldReset
LoadDocument ==
  /\ annotations' = <<>>
  /\ emitted' = Log(Cleared)
  /\ UNCHANGED <<selectedAnnotationId, showCommentModal>>
  /\ HostKeep

HostInit ==
  /\ FrameStill /\ ApiStill /\ PageStill
  /\ mode \in {"full", "edit"}
  /\ annotations \in HostLists
  /\ selectedAnnotationId = NullId
  /\ newAnnotationId = NullId
  /\ showCommentModal = FALSE
  /\ isDrawing = FALSE
  /\ startPoint = Null
  /\ currentAnnotation = Null
  /\ draggedAnnotationId = NullId
  /\ dragOffset = Origin
  /\ nextId = 1
  /\ emitted = <<>>
  /\ gesture = NoGesture
  /\ drawTool = "none"
  /\ abandoned = {}

HostNext ==
  \/ Still /\ \E tool \in HostTools, point \in Points : MouseDown(tool, DefaultFontSize, point)
  \/ Still /\ \E tool \in HostTools, point \in Points : MouseMove(tool, point)
  \/ Still /\ \E tool \in HostTools : MouseUp(tool)
  \/ Still /\ \E id \in AllIds : DeleteAnnotation(id)
  \/ Still /\ EditSelected
  \/ Still /\ CancelModal
  \/ Still /\ SaveModal
  \/ Still /\ ClearAll
  \/ Still /\ \E anns \in HostLists : InstanceSetAnnotations(anns)
  \/ Still /\ InstanceClearAnnotations
  \/ Still /\ LoadDocument

HostSpec == HostInit /\ [][HostNext]_vars

\* ------------------------------------------- documents, pages and renders
\* The host keeps the shapes of every document and page in one list and hands
\* the layer those of the page shown.  A shape of that list is modelled as
\* the shape together with its two fields documentId and page.  A state
\* update made outside an event handler (the results of auto-annotate, a call
\* of the instance handle) waits in React's queue until the next render; the
\* layer and the host's callbacks keep the values of the last render until
\* then.
SecondPage == DefaultPage + 1
PageSet ==
  { FirstPage,
    [documentId |-> "docA", pageNumber |-> SecondPage],
    [documentId |-> "docB", pageNumber |-> DefaultPage] }
Placed(ann, documentId, page) == [ann |-> ann, documentId |-> documentId, page |-> page]
PageOf(a) == IF a.page = NoPage THEN DefaultPage ELSE a.page
Shapes(placed) == [i \in 1..Len(placed) |-> placed[i].ann]

visibleAnnotations(all, documentId) == SelectSeq(all, LAMBDA a : a.documentId = documentId)
pageAnnotations(all, page) ==
  SelectSeq(visibleAnnotations(all, page.documentId), LAMBDA a : PageOf(a) = page.pageNumber)

\* faulty variant: the merge keeps the shapes of other page numbers only
MergePageByNumber(prev, updatedPageAnns, page) ==
  SelectSeq(prev, LAMBDA a : PageOf(a) # page.pageNumber) \o updatedPageAnns
\* the host merges a list emitted by the layer
MergePage(prev, updatedPageAnns, page) ==
  SelectSeq(prev, LAMBDA a : a.documentId # page.documentId \/ PageOf(a) # page.pageNumber)
    \o updatedPageAnns

\* The list a handler emits: the shapes of its prop, position by position
\* (`annotations.map`), each with the fields it came with, then the shape it
\* made (`[...annotations, newAnn]`), with the documentId and page props.
Emit(prop, list, page) ==
  [i \in 1..Len(list) |->
     IF i <= Len(prop) THEN [prop[i] EXCEPT !.ann = list[i]]
     ELSE Placed(list[i], page.documentId, page.pageNumber)]

\* the queued updates, applied in order
Apply(u, prev) == IF u.op = "add" THEN prev \o u.anns ELSE u.anns
RECURSIVE Pending(_, _)
Pending(prev, queue) ==
  IF queue = <<>> THEN prev ELSE Pending(Apply(Head(queue), prev), Tail(queue))

MaxPending == 1
AiId == 103
\* the shape found by the analysis
AiRect == NewRect(AiId, P(0, G))
OtherCircle == [NewCircle(HostId2, P(G, G)) EXCEPT !.radius2 = G * G]
\* a rectangle on the first page of the first document, and a circle on that
\* page (without a page number), on its second page, or in the other document
Elsewhere ==
  { [documentId |-> "docA", page |-> NoPage],
    [documentId |-> "docA", page |-> SecondPage],
    [documentId |-> "docB", page |-> NoPage] }
PageLists ==
  { <<Placed(SessionRect, "docA", DefaultPage), Placed(OtherCircle, e.documentId, e.page)>> :
      e \in Elsewhere }
PageTools == {"select", "rect", "text"}
\* the pointer positions of the runs over pages
PagePoints == {Origin, P(G, G)}

PageKeep == UNCHANGED <<frameVars, apiVars, viewVars>>

\* A pointer handler of the layer, on the list of the last render.  When it
\* emits a list, the host's merge is queued behind the updates that wait,
\* and the renders that follow apply them in that order.
Handled(Handler) ==
  /\ Handler
  /\ currentPage' = currentPage
  /\ IF \E k \in 1..Len(emitted') : emitted'[k].cb = "change"
     THEN /\ allAnnotations' =
               MergePage(Pending(allAnnotations, updates),
                                   Emit(pageAnnotations(allAnnotations, currentPage),
                                        annotations', currentPage),
                                   currentPage)
          /\ updates' = <<>>
     ELSE UNCHANGED <<allAnnotations, updates>>
  /\ PageKeep

\* handleAnalyze, after the await: the shapes found on the page analysed
AnalyzeResults ==
  /\ ~isViewOnly
  /\ Len(updates) < MaxPending
  /\ ~Has(Shapes(Pending(allAnnotations, updates)), AiId)
  /\ updates' = Append(updates,
       [op |-> "add",
        anns |-> <<Placed(AiRect, currentPage.documentId, currentPage.pageNumber)>>])
  /\ emitted' = <<[cb |-> "add", id |-> NullId, ann |-> AiRect]>>
  /\ UNCHANGED <<hostVars, layerVars, nextId, histVars, allAnnotations, currentPage>>
  /\ PageKeep

\* the integrator removes a shape: instance.setAnnotations(list without it)
InstanceRemove(id) ==
  /\ Len(updates) < MaxPending
  /\ Has(Shapes(allAnnotations), id)
  /\ updates' = Append(updates,
       [op |-> "set", anns |-> SelectSeq(allAnnotations, LAMBDA a : a.ann.id # id)])
  /\ emitted' = <<>>
  /\ UNCHANGED <<hostVars, layerVars, nextId, histVars, allAnnotations, currentPage>>
  /\ PageKeep

\* React renders the host with the queued updates applied
Render ==
  /\ updates # <<>>
  /\ allAnnotations' = Pending(allAnnotations, updates)
  /\ updates' = <<>>
  /\ annotations' = Shapes(pageAnnotations(allAnnotations', currentPage))
  /\ emitted' = <<>>
  /\ UNCHANGED <<mode, selectedAnnotationId, newAnnotationId, showCommentModal,
                 layerVars, nextId, histVars, currentPage>>
  /\ PageKeep

PageInit ==
  /\ FrameStill /\ ApiStill
  /\ mode = "edit"                  \* no details dialog opens
  /\ allAnnotations \in PageLists
  /\ updates = <<>>
  /\ currentPage \in PageSet
  /\ annotations = Shapes(pageAnnotations(allAnnotations, currentPage))
  /\ selectedAnnotationId = NullId
  /\ newAnnotationId = NullId
  /\ showCommentModal = FALSE
  /\ isDrawing = FALSE
  /\ startPoint = Null
  /\ currentAnnotation = Null
  /\ draggedAnnotationId = NullId
  /\ dragOffset = Origin
  /\ nextId = 1
  /\ emitted = <<>>
  /\ gesture = NoGesture
  /\ drawTool = "none"
  /\ abandoned = {}

PageNext ==
  \/ \E tool \in PageTools, point \in PagePoints : Handled(MouseDown(tool, DefaultFontSize, point))
  \/ \E tool \in PageTools, point \in PagePoints : Handled(MouseMove(tool, point))
  \/ \E tool \in PageTools : Handled(MouseUp(tool))
  \/ AnalyzeResults
  \/ \E id \in HostIds : InstanceRemove(id)
  \/ Render

PageSpec == PageInit /\ [][PageNext]_vars


\* =============================================================== claims
Sel(id) == [cb |-> "select", id |-> id, ann |-> Blank]
Fired(log, cb) == \E k \in 1..Len(log) : log[k].cb = cb
IndexOf(anns, id) == CHOOSE i \in 1..Len(anns) : anns[i].id = id
AnyFont == DefaultFontSize

\* the shape a draw gesture must leave: its pointer-down point g.A, the
\* latest pointer position g.last and, for a pen, the pointer trail
ExpectedDrawn(g) ==
  CASE g.tool = "rect" ->
         [id |-> g.id, type |-> "rect", x |-> g.A.x, y |-> g.A.y,
          width |-> g.last.x - g.A.x, height |-> g.last.y - g.A.y,
          radius2 |-> 0, points |-> <<>>, text |-> "", fontSize |-> 0, status |-> "New"]
    [] g.tool = "circle" ->
         [id |-> g.id, type |-> "circle", x |-> g.A.x, y |-> g.A.y, width |-> 0, height |-> 0,
          radius2 |-> (g.last.x - g.A.x) * (g.last.x - g.A.x) + (g.last.y - g.A.y) * (g.last.y - g.A.y),
          points |-> <<>>, text |-> "", fontSize |-> 0, status |-> "New"]
    [] g.tool = "pen" ->
         [id |-> g.id, type |-> "pen", x |-> 0, y |-> 0, width |-> 0, height |-> 0,
          radius2 |-> 0, points |-> g.trail, text |-> "", fontSize |-> 0, status |-> "New"]
    [] g.tool = "arrow" ->
         [id |-> g.id, type |-> "arrow", x |-> 0, y |-> 0, width |-> 0, height |-> 0,
          radius2 |-> 0, points |-> <<g.A, g.last>>, text |-> "", fontSize |-> 0, status |-> "New"]

\* C1: a draw gesture (rect, circle, pen, arrow; read-only off, the tool
\* unchanged, started with no session open) holds as its in-progress shape the
\* shape spanned by its pointer-down point and its latest pointer position
\* (zero extent before the first move, signs preserved), and its pointer-up
\* appends exactly that shape to the list, the earlier entries unchanged.
C1_DrawGestureCommits ==
  [][ /\ gesture.kind = "draw" => currentAnnotation = Some(ExpectedDrawn(gesture))
      /\ \A tool \in DrawTools :
           (/\ gesture.kind = "draw" /\ tool = gesture.tool /\ ~readOnly
            /\ (MouseUp(tool) \/ MouseLeave(tool)))
           => annotations' = Append(annotations, ExpectedDrawn(gesture)) ]_vars

\* a rectangle drawn right-to-left was committed behind the host's shape
C1_Witness ==
  /\ Len(annotations) = 2
  /\ annotations[1].id = HostId1
  /\ annotations[2].type = "rect" /\ annotations[2].id \notin HostIds
  /\ annotations[2].width < 0 /\ annotations[2].height > 0
  /\ Fired(emitted, "created")

\* the id of the hit shape of highest index, or null
TopHit(anns, point) ==
  IF \E i \in 1..Len(anns) : Hit(point, anns[i])
  THEN anns[CHOOSE i \in 1..Len(anns) :
              Hit(point, anns[i]) /\ \A j \in (i + 1)..Len(anns) : ~Hit(point, anns[j])].id
  ELSE NullId

\* C2: in select mode a pointer-down signals selection-changed once, with the
\* id of the hit shape of highest list index, or with null when no shape is hit.
C2_TopmostHitSelected ==
  [][ \A point \in Points :
        MouseDown("select", AnyFont, point)
        => /\ emitted' = <<Sel(TopHit(annotations, point))>>
           /\ selectedAnnotationId' = TopHit(annotations, point) ]_vars

\* two shapes are hit at the pressed point and the later one is selected
C2_Witness ==
  /\ Len(annotations) = 2
  /\ emitted = <<Sel(annotations[2].id)>>
  /\ draggedAnnotationId = annotations[2].id
  /\ annotations[2].type = "rect"
  /\ LET point == [x |-> annotations[2].x + dragOffset.x, y |-> annotations[2].y + dragOffset.y]
     IN  Hit(point, annotations[1]) /\ Hit(point, annotations[2])

FixedOrigin(ann) == ann.type \in {"rect", "text", "circle"}

\* C3: the pointer-down that starts dragging a rect, text or circle stores the
\* offset pointer - origin; every pointer-move the layer handles (tool not
\* pan, read-only off) while that shape is dragged puts its origin at
\* pointer - offset; and the offset stays as stored while the session lasts.
C3_FixedOriginDrag ==
  [][ /\ \A point \in Points :
           (/\ ~readOnly /\ TopHit(annotations, point) # NullId
            /\ FixedOrigin(annotations[IndexOf(annotations, TopHit(annotations, point))])
            /\ MouseDown("select", AnyFont, point))
           => LET ann == annotations[IndexOf(annotations, TopHit(annotations, point))]
              IN  /\ draggedAnnotationId' = ann.id
                  /\ dragOffset' = [x |-> point.x - ann.x, y |-> point.y - ann.y]
      /\ \A tool \in Tools \ {"hand"}, point \in Points :
           (/\ ~readOnly /\ Has(annotations, draggedAnnotationId)
            /\ FixedOrigin(annotations[IndexOf(annotations, draggedAnnotationId)])
            /\ MouseMove(tool, point))
           => LET i == IndexOf(annotations, draggedAnnotationId)
              IN  /\ Len(annotations') = Len(annotations)
                  /\ annotations'[i].id = draggedAnnotationId
                  /\ annotations'[i].x = point.x - dragOffset.x
                  /\ annotations'[i].y = point.y - dragOffset.y
      /\ (/\ Has(annotations, draggedAnnotationId)
          /\ FixedOrigin(annotations[IndexOf(annotations, draggedAnnotationId)])
          /\ draggedAnnotationId' = draggedAnnotationId
          /\ ~ \E point \in Points : MouseDown("select", AnyFont, point))
         => dragOffset' = dragOffset ]_vars

\* a circle is being dragged and has left the place it was pressed at
C3_Witness ==
  /\ Has(annotations, draggedAnnotationId)
  /\ annotations[IndexOf(annotations, draggedAnnotationId)].type = "circle"
  /\ annotations[IndexOf(annotations, draggedAnnotationId)].x = GridStep
  /\ dragOffset # Origin
  /\ Fired(emitted, "change")

\* C4: while a pen or an arrow is dragged, after every pointer-move the layer
\* handles each of its points is the point it had at pointer-down moved by
\* (pointer - pointer-down position); number and order of points are kept.
C4_PathDrag ==
  [][ \A tool \in Tools \ {"hand"}, point \in Points :
        (/\ ~readOnly /\ gesture.kind = "drag" /\ gesture.trail # <<>>
         /\ Has(annotations, gesture.id)
         /\ MouseMove(tool, point))
        => LET i == IndexOf(annotations, gesture.id)
               pts == annotations'[i].points
           IN  /\ Len(annotations') = Len(annotations)
               /\ annotations'[i].id = gesture.id
               /\ Len(pts) = Len(gesture.trail)
               /\ \A k \in 1..Len(pts) :
                    /\ pts[k].x = gesture.trail[k].x + (point.x - gesture.A.x)
                    /\ pts[k].y = gesture.trail[k].y + (point.y - gesture.A.y) ]_vars

\* a dragged pen lies away from where it was pressed, after a move
C4_Witness ==
  /\ gesture.kind = "drag" /\ gesture.trail # <<>>
  /\ Has(annotations, gesture.id)
  /\ annotations[IndexOf(annotations, gesture.id)].type = "pen"
  /\ annotations[IndexOf(annotations, gesture.id)].points # gesture.trail
  /\ emitted # <<>> /\ emitted[1].cb = "change"

PointerStep ==
  \/ \E tool \in Tools, fontSize \in FontSizes, point \in Points : MouseDown(tool, fontSize, point)
  \/ \E tool \in Tools, point \in Points : MouseMove(tool, point)
  \/ \E tool \in Tools : MouseUp(tool) \/ MouseLeave(tool)

Mutating == {"change", "created", "updated", "deleted"}

C6_ReadOnlySelectOnly ==
  [][ /\ \A point \in Points :
           (isViewOnly /\ MouseDown("select", AnyFont, point))
           => /\ emitted' = <<Sel(TopHit(annotations, point))>>
              /\ UNCHANGED layerVars
              /\ annotations' = annotations
      /\ \A tool \in Tools, point \in Points :
           (isViewOnly /\ MouseMove(tool, point))
           => annotations' = annotations /\ UNCHANGED layerVars ]_vars

\* read-only: the upper of two shapes is selected and no shape is dragged
C6_Witness ==
  /\ mode = "viewonly"
  /\ Len(annotations) = 2
  /\ selectedAnnotationId = annotations[2].id
  /\ emitted = <<Sel(annotations[2].id)>>
  /\ draggedAnnotationId = NullId

\* C7: a shape in progress when the tool mode is switched is abandoned: it is
\* never in the shape list and no created callback carries it.
C7_SwitchAbandons ==
  /\ \A i \in 1..Len(annotations) : annotations[i].id \notin abandoned
  /\ \A k \in 1..Len(emitted) : emitted[k].cb = "created" => emitted[k].id \notin abandoned

\* C8: after every pointer-up and pointer-leave, in any tool mode, the session
\* is Idle: no drawing flag, no in-progress shape, no dragged-shape id.
C8_IdleAfterPointerUp ==
  [][ \A tool \in Tools : (MouseUp(tool) \/ MouseLeave(tool)) => Idle' ]_vars

NoListChange ==
  /\ annotations' = annotations
  /\ \A k \in 1..Len(emitted') : emitted'[k].cb # "change"

InProgressOutsideList ==
  currentAnnotation # Null => ~Has(annotations, currentAnnotation[1].id)

\* C9: the in-progress shape is never an element of the shape list; the
\* pointer-down that opens a Drawing session and the pointer-moves of a
\* Drawing session (no shape being dragged) emit no list change; the
\* pointer-up that commits the shape changes the list.
C9_InProgressNotInList ==
  [][ /\ InProgressOutsideList /\ InProgressOutsideList'
      /\ NoListChange
         \/ ~ \E tool \in DrawTools, point \in Points : MouseDown(tool, AnyFont, point)
      /\ NoListChange
         \/ ~ \E tool \in Tools, point \in Points :
                 draggedAnnotationId = NullId /\ MouseMove(tool, point)
      /\ (annotations' # annotations /\ Fired(emitted', "change"))
         \/ ~ \E tool \in Tools \ {"hand"} :
                 /\ isDrawing /\ currentAnnotation # Null /\ ~isViewOnly
                 /\ (MouseUp(tool) \/ MouseLeave(tool)) ]_vars

\* a pen with two points is in progress over a list that holds another shape
C9_Witness ==
  /\ isDrawing /\ currentAnnotation # Null
  /\ currentAnnotation[1].type = "pen" /\ Len(currentAnnotation[1].points) = 2
  /\ Len(annotations) = 1
  /\ emitted = <<>>

\* C10: in text mode with read-only off a pointer-down at P appends one text
\* shape with origin P, the placeholder content and the current font size,
\* fires created with it and leaves the session state as it was; with no
\* session open, a pointer-move, pointer-up or pointer-leave in text mode
\* changes nothing and fires nothing.
C10_TextPlacedAtOnce ==
  [][ /\ \A fontSize \in FontSizes, point \in Points :
           (~readOnly /\ MouseDown("text", fontSize, point))
           => LET t == [id |-> nextId, type |-> "text", x |-> point.x, y |-> point.y,
                        width |-> 0, height |-> 0, radius2 |-> 0, points |-> <<>>,
                        text |-> "Enter Text", fontSize |-> fontSize, status |-> "New"]
              IN  /\ annotations' = Append(annotations, t)
                  /\ emitted' = <<[cb |-> "change", id |-> NullId, ann |-> Blank],
                                  [cb |-> "created", id |-> t.id, ann |-> t]>>
                  /\ UNCHANGED layerVars
      /\ (/\ Idle
          /\ \/ \E point \in Points : MouseMove("text", point)
             \/ MouseUp("text") \/ MouseLeave("text"))
         => UNCHANGED <<hostVars, layerVars>> /\ emitted' = <<>> ]_vars

\* a text of the small font size was placed and no session is open
C10_Witness ==
  /\ Idle
  /\ Len(emitted) = 2 /\ emitted[2].cb = "created"
  /\ emitted[2].ann.type = "text" /\ emitted[2].ann.fontSize = SmallFontSize
  /\ emitted[2].ann.x = GridStep /\ emitted[2].ann.y = 0
  /\ Has(annotations, emitted[2].id)

Count(log, cb) == Cardinality({k \in 1..Len(log) : log[k].cb = cb})
Entry(log, cb) == log[CHOOSE k \in 1..Len(log) : log[k].cb = cb]
HandledUp == \E tool \in Tools \ {"hand"} : MouseUp(tool) \/ MouseLeave(tool)

\* C11: a handler fires created at most once; created is fired only by the
\* pointer-up (or pointer-leave) that commits the shape in progress, carrying
\* that shape and closing the Drawing session, or by the text-mode pointer-down,
\* carrying the new text; each of these two fires it; a pointer-move and a
\* pointer-up that finds no Drawing session fire none.
C11_CreatedOncePerCommit ==
  [][ /\ Count(emitted', "created") <= 1
      /\ Count(emitted', "created") = 1 =>
           LET c == Entry(emitted', "created") IN
           \/ /\ isDrawing /\ currentAnnotation = Some(c.ann) /\ c.id = c.ann.id
              /\ ~isDrawing' /\ currentAnnotation' = Null
              /\ HandledUp
           \/ /\ c.ann.type = "text" /\ c.ann.id = nextId /\ c.id = nextId
              /\ ~readOnly
              /\ \E fontSize \in FontSizes, point \in Points : MouseDown("text", fontSize, point)
      /\ Count(emitted', "created") = 1
         \/ ~ (isDrawing /\ currentAnnotation # Null /\ HandledUp)
      /\ Count(emitted', "created") = 1
         \/ ~ (~readOnly /\ \E fontSize \in FontSizes, point \in Points :
                              MouseDown("text", fontSize, point))
      /\ Count(emitted', "created") = 0
         \/ ~ \E tool \in Tools, point \in Points : MouseMove(tool, point)
      /\ Count(emitted', "created") = 0
         \/ ~ (~isDrawing /\ \E tool \in Tools : MouseUp(tool) \/ MouseLeave(tool)) ]_vars

\* a drawn circle was committed: created was fired once, with it, and the
\* session is closed
C11_Witness ==
  /\ Idle
  /\ Count(emitted, "created") = 1
  /\ Entry(emitted, "created").ann.type = "circle"
  /\ Entry(emitted, "created").ann.radius2 > 0
  /\ Has(annotations, Entry(emitted, "created").id)

\* C12: a pointer-up (or pointer-leave) the layer handles while a shape of the
\* list is being dragged fires updated exactly once, carrying that shape as it
\* stands in the list, and ends the Dragging session; a pointer-up with no
\* session open fires nothing and changes nothing.
C12_UpdatedAtDragEnd ==
  [][ /\ (/\ Has(annotations, draggedAnnotationId) /\ HandledUp)
         => /\ Count(emitted', "updated") = 1
            /\ Entry(emitted', "updated") =
                 [cb |-> "updated", id |-> draggedAnnotationId,
                  ann |-> annotations[IndexOf(annotations, draggedAnnotationId)]]
            /\ draggedAnnotationId' = NullId
            /\ isDrawing \/ annotations' = annotations
      /\ (emitted' = <<>> /\ UNCHANGED <<hostVars, layerVars>>)
         \/ ~ (Idle /\ \E tool \in Tools : MouseUp(tool) \/ MouseLeave(tool)) ]_vars

\* a text was dragged to the right and released: updated carries it there
C12_Witness ==
  /\ Idle
  /\ Len(emitted) = 1 /\ emitted[1].cb = "updated"
  /\ emitted[1].ann.type = "text" /\ emitted[1].ann.x = GridStep
  /\ Has(annotations, emitted[1].id)
  /\ annotations[IndexOf(annotations, emitted[1].id)] = emitted[1].ann

\* the list without its i-th entry, the others as they are and in their order
Without(anns, i) == [k \in 1..(Len(anns) - 1) |-> IF k < i THEN anns[k] ELSE anns[k + 1]]
Deleted(id) == [cb |-> "deleted", id |-> id, ann |-> Blank]

\* C13: with read-only off, delete(id) for the id of a shape of the list
\* removes that shape only, keeps the others unchanged and in order, clears
\* the selection if and only if the deleted shape was the selected one, and
\* emits deleted once, with the id.
C13_DeletePresent ==
  [][ \A id \in AllIds :
        (/\ ~isViewOnly /\ Has(annotations, id)
         /\ DeleteAnnotation(id))
        => /\ annotations' = Without(annotations, IndexOf(annotations, id))
           /\ ~Has(annotations', id)
           /\ selectedAnnotationId' = IF selectedAnnotationId = id THEN NullId
                                      ELSE selectedAnnotationId
           /\ emitted' = <<Deleted(id)>> ]_vars

\* the first of two shapes was deleted while the second was selected: the
\* second is left, still selected
C13_Witness ==
  /\ emitted = <<Deleted(HostId1)>>
  /\ Len(annotations) = 1 /\ annotations[1].id = HostId2
  /\ selectedAnnotationId = HostId2

\* C14: delete(id) for an id that no shape of the list has leaves the list and
\* the selection unchanged and fires no callback.
C14_DeleteAbsent ==
  [][ \A id \in AllIds :
        (~Has(annotations, id) /\ DeleteAnnotation(id))
        => /\ annotations' = annotations
           /\ selectedAnnotationId' = selectedAnnotationId
           /\ emitted' = <<>> ]_vars

C16_PlacedTextSelected ==
  [][ \A fontSize \in FontSizes, point \in Points :
        (~readOnly /\ MouseDown("text", fontSize, point))
        => /\ Has(annotations', nextId)
           /\ selectedAnnotationId' = nextId ]_vars

PanStep ==
  \/ \E point \in Points : MouseDown("hand", AnyFont, point)
  \/ \E point \in Points : MouseMove("hand", point)
  \/ MouseUp("hand")
  \/ MouseLeave("hand")

\* C17: in pan mode a pointer-down, pointer-move, pointer-up or pointer-leave
\* fires no callback and leaves the shape list, the selection and the session
\* of the layer unchanged.
C17_PanModeInert ==
  [][ (/\ emitted' = <<>>
       /\ annotations' = annotations
       /\ selectedAnnotationId' = selectedAnnotationId
       /\ UNCHANGED layerVars)
      \/ ~PanStep ]_vars

\* a shape is being dragged, the tool was switched to pan meanwhile, and the
\* last event fired nothing
C17_Witness ==
  /\ gesture.kind = "drag" /\ draggedAnnotationId = gesture.id
  /\ Has(annotations, draggedAnnotationId)
  /\ selectedAnnotationId = draggedAnnotationId
  /\ mode = "full"
  /\ emitted = <<>>

Min(a, b) == IF a < b THEN a ELSE b
Max(a, b) == IF a < b THEN b ELSE a
Probe(point) == MouseDown("select", AnyFont, point)
\* the probed shape was hit: the pointer-down selected it
Selected == selectedAnnotationId' = annotations[1].id

\* the closed box spanned by the corners (x, y) and (x+width, y+height)
InClosedBox(point, rect) ==
  /\ Min(rect.x, rect.x + rect.width) <= point.x
  /\ point.x <= Max(rect.x, rect.x + rect.width)
  /\ Min(rect.y, rect.y + rect.height) <= point.y
  /\ point.y <= Max(rect.y, rect.y + rect.height)

\* C18: a select-mode pointer-down hits a rectangle exactly when the point
\* lies in the closed box spanned by (x, y) and (x+width, y+height), whatever
\* the signs of width and height.
C18_RectHitNormalized ==
  [][ \A point \in GeoPoints :
        (annotations[1].type = "rect" /\ Probe(point))
        => (Selected <=> InClosedBox(point, annotations[1])) ]_vars

\* C19: a select-mode pointer-down hits a pen path exactly when the point is
\* closer than the threshold to at least one of its vertices, for a path of
\* one point as for longer ones.
C19_PenHitAnyVertex ==
  [][ \A point \in GeoPoints :
        (annotations[1].type = "pen" /\ Probe(point))
        => (Selected <=>
              \E i \in 1..Len(annotations[1].points) :
                 (point.x - annotations[1].points[i].x) * (point.x - annotations[1].points[i].x)
                 + (point.y - annotations[1].points[i].y) * (point.y - annotations[1].points[i].y)
                 < DefaultThreshold * DefaultThreshold) ]_vars

\* Some point of the segment v-w is closer to p than the threshold.  The
\* nearest point of the segment is v + t(w - v) with t = dot / l2 clamped to
\* [0,1], one of the points v + (k / l2)(w - v), k in 0..l2; the squared
\* distance from p to such a point is (l2 |p-v|^2 - 2 k dot + k^2) / l2.
SegmentNear(p, v, w) ==
  LET l2 == (w.x - v.x) * (w.x - v.x) + (w.y - v.y) * (w.y - v.y)
      d2 == (p.x - v.x) * (p.x - v.x) + (p.y - v.y) * (p.y - v.y)
      dot == (p.x - v.x) * (w.x - v.x) + (p.y - v.y) * (w.y - v.y)
  IN  IF l2 = 0 THEN d2 < DefaultThreshold * DefaultThreshold
      ELSE \E k \in 0..l2 :
             l2 * d2 - 2 * k * dot + k * k < DefaultThreshold * DefaultThreshold * l2

\* C20: a select-mode pointer-down hits an arrow exactly when the squared
\* distance from the point to the nearest point of the segment start-end (a
\* zero-length segment being its single point) is less than the threshold
\* squared.
C20_ArrowHitSegment ==
  [][ \A point \in GeoPoints :
        (annotations[1].type = "arrow" /\ Probe(point))
        => (Selected <=>
              SegmentNear(point, annotations[1].points[1], annotations[1].points[2])) ]_vars

\* an arrow was hit at a point that is off its line and projects strictly
\* inside the segment (dragOffset is the pressed point)
C20_Witness ==
  /\ annotations[1].type = "arrow"
  /\ draggedAnnotationId = annotations[1].id
  /\ selectedAnnotationId = annotations[1].id
  /\ LET v == annotations[1].points[1]
         w == annotations[1].points[2]
         p == dragOffset
         dot == (p.x - v.x) * (w.x - v.x) + (p.y - v.y) * (w.y - v.y)
         cross == (p.x - v.x) * (w.y - v.y) - (p.y - v.y) * (w.x - v.x)
     IN  /\ 0 < dot /\ dot < Dist2(v, w)
         /\ cross # 0

Updated(ann) == [cb |-> "updated", id |-> ann.id, ann |-> ann]
CircleAt(x, y) == [DragCircle EXCEPT !.x = x, !.y = y]
\* the circle at (50,50) was pressed at (55,55): the session a press there opens
PressedAt55 == draggedAnnotationId = HostId1 /\ dragOffset = [x |-> 5, y |-> 5]

\* C21 as stated: select mode, a circle of centre (50,50) and radius 20;
\* pointer-down at (55,55) selects the circle, and the drag to (100,100)
\* followed by pointer-up leaves its centre at (100,100), updated fired once.
C21_DragCircleToPointer ==
  [][ /\ (annotations = <<DragCircle>> /\ MouseDown("select", AnyFont, [x |-> 55, y |-> 55]))
         => selectedAnnotationId' = HostId1 /\ draggedAnnotationId' = HostId1
      /\ (PressedAt55 /\ DragPointerMove([x |-> 100, y |-> 100]))
         => annotations' = <<CircleAt(100, 100)>>
      /\ (PressedAt55 /\ MouseUp("select"))
         => annotations' = annotations /\ emitted' = <<Updated(annotations[1])>> ]_vars

\* C21 amended: select mode, read-only off, a circle of centre (50,50) and
\* radius 20; pointer-down at (55,55) selects the circle and opens a Dragging
\* session with offset (5,5); the drag to (100,100) puts its centre at
\* (95,95), the pointer minus that offset; the pointer-up leaves it there,
\* fires updated exactly once, carrying the circle, and ends the session.
C21_DragCircleKeepsOffset ==
  [][ /\ (annotations = <<DragCircle>> /\ MouseDown("select", AnyFont, [x |-> 55, y |-> 55]))
         => /\ selectedAnnotationId' = HostId1 /\ draggedAnnotationId' = HostId1
            /\ dragOffset' = [x |-> 5, y |-> 5]
            /\ emitted' = <<Sel(HostId1)>>
      /\ (PressedAt55 /\ DragPointerMove([x |-> 100, y |-> 100]))
         => annotations' = <<CircleAt(95, 95)>> /\ PressedAt55'
      /\ (PressedAt55 /\ MouseUp("select"))
         => /\ annotations' = annotations
            /\ emitted' = <<Updated(annotations[1])>>
            /\ Idle' ]_vars

\* the circle was released at (95,95), still selected, and updated carried it
C21_Witness ==
  /\ annotations = <<CircleAt(95, 95)>>
  /\ selectedAnnotationId = HostId1
  /\ Idle
  /\ emitted = <<Updated(CircleAt(95, 95))>>

\* the id and the kind of every entry of a list, in list order
Kinds(anns) == [i \in 1..Len(anns) |-> <<anns[i].id, anns[i].type>>]
KindOf(ann) == <<ann.id, ann.type>>

\* C22: no step changes the id or the kind of a shape.  The entries a step
\* leaves in the list keep their id and kind, in their order: the list is
\* extended, or loses the entries of one id.  The shape in progress keeps its
\* id and kind while no new shape is begun, under a pointer-move of any tool,
\* and carries them into the list when it is committed.
C22_KindAndIdImmutable ==
  [][ /\ Len(annotations') >= Len(annotations)
         => \A i \in 1..Len(annotations) : KindOf(annotations'[i]) = KindOf(annotations[i])
      /\ Len(annotations') < Len(annotations)
         => \E id \in AllIds :
              Kinds(annotations') = SelectSeq(Kinds(annotations), LAMBDA k : k[1] # id)
      /\ (currentAnnotation # Null /\ currentAnnotation' # Null /\ nextId' = nextId)
         => KindOf(currentAnnotation'[1]) = KindOf(currentAnnotation[1])
      /\ (currentAnnotation # Null /\ currentAnnotation' = Null
          /\ Len(annotations') > Len(annotations) /\ nextId' = nextId)
         => KindOf(annotations'[Len(annotations')]) = KindOf(currentAnnotation[1]) ]_vars

\* a rectangle begun with the rectangle tool is still in progress, sized, after
\* a handler ran with another tool
C22_Witness ==
  /\ isDrawing /\ currentAnnotation # Null
  /\ currentAnnotation[1].type = "rect" /\ drawTool = "rect"
  /\ currentAnnotation[1].width # 0
  /\ currentAnnotation[1].id \in abandoned

\* C23: no pointer handler raises an exception in any reachable state, a
\* pointer-move after a change of the tool during a Drawing session included.
C23_NoException ==
  \A k \in 1..Len(emitted) : emitted[k].cb # "throw"

Kinds5 == {"rect", "circle", "pen", "text", "arrow"}
\* a pen with an empty point list, or a shape of a kind the layer does not know
Skippable(ann) == (ann.type = "pen" /\ ann.points = <<>>) \/ ann.type \notin Kinds5
\* the shapes a render pass goes through: the list, then the shape in progress
PassShapes(deps) == deps.annotations \o deps.currentAnnotation
Painted(surf, ann) == \E k \in 1..Len(surf) : surf[k].ann = ann
\* the list without the shapes to be skipped
Unskipped(anns) == SelectSeq(anns, LAMBDA a : ~Skippable(a))

\* C24: a pen shape with an empty point list and a shape of an unknown kind
\* are skipped: a render pass paints nothing for them and paints every other
\* shape of the list; a select-mode pointer-down never selects them and
\* selects what it would select were they not in the list.
C24_MalformedSkipped ==
  [][ /\ (rafQueue # <<>> /\ Frame)
         => LET shapes == PassShapes(Head(rafQueue)) IN
            (\E i \in 1..Len(shapes) : Skippable(shapes[i]))
            => \A i \in 1..Len(shapes) : Painted(surface', shapes[i]) <=> ~Skippable(shapes[i])
      /\ \A point \in FramePoints :
           MouseDown("select", AnyFont, point)
           => selectedAnnotationId' = TopHit(Unskipped(annotations), point) ]_vars

\* the place of a painted shape among the shapes of the pass
PlaceIn(shapes, ann) == CHOOSE i \in 1..Len(shapes) : shapes[i] = ann

\* C25: a render pass paints the shapes of the list in list order and the
\* shape in progress last, each under the scale renderScale and with the glow
\* exactly when it is the selected one, whatever earlier passes did; it leaves
\* the list, the selection, the session and the canvas context as they were.
C25_RenderPure ==
  [][ (rafQueue # <<>> /\ Frame)
      => LET deps == Head(rafQueue)
             shapes == PassShapes(deps)
         IN  /\ \A i \in 1..Len(shapes) :
                  (shapes[i].type \in Kinds5 \ {"pen", "arrow"}) => Painted(surface', shapes[i])
             /\ \A k \in 1..Len(surface') :
                  /\ \E i \in 1..Len(shapes) : shapes[i] = surface'[k].ann
                  /\ surface'[k].scale = renderScale
                  /\ surface'[k].glow = (surface'[k].ann.id = deps.selectedId)
             /\ \A k, l \in 1..Len(surface') :
                  k < l => PlaceIn(shapes, surface'[k].ann) <= PlaceIn(shapes, surface'[l].ann)
             /\ ctx' = ctx
             /\ UNCHANGED <<hostVars, layerVars>> ]_vars

\* C26: every change of the shape list, the shape in progress or the
\* selection requests a render of the new state for the next frame; the
\* request pending before is cancelled, so at most one is pending, and it is
\* for the latest state; a frame runs the pending render and leaves none
\* pending; and a pending render eventually runs (while the context holds
\* fewer than MaxSaves saved states).
C26_RenderScheduled ==
  /\ [][ /\ Deps' # Deps => rafQueue' = <<Deps'>>
         /\ (rafQueue # <<>> /\ Frame) => rafQueue' = <<>> ]_vars
  /\ [](Len(rafQueue) <= 1)
  /\ [](rafQueue # <<>> => Head(rafQueue) = Deps)
  /\ (rafQueue # <<>> /\ Len(ctx.saved) < MaxSaves) ~> (rafQueue = <<>>)

\* a sized rectangle in progress is painted, last, the selected shape of the
\* list before it, and no render is pending
C26_Witness ==
  /\ rafQueue = <<>>
  /\ isDrawing /\ currentAnnotation # Null /\ currentAnnotation[1].width # 0
  /\ surface # <<>>
  /\ surface[Len(surface)].ann = currentAnnotation[1]
  /\ surface[1].ann = annotations[1]

\* the point of the event e in logical units is exactly
\* ((clientX - left) * width / rect.width, (clientY - top) * height / rect.height)
MapsExactly(e, point) ==
  /\ point.x * canvasRect.width = (e.clientX - canvasRect.left) * pageSize.width
  /\ point.y * canvasRect.height = (e.clientY - canvasRect.top) * pageSize.height

\* C27: a pointer-down at client position (cx, cy) over a canvas whose
\* bounding rectangle is (left, top, dw, dh) and whose logical size is (w, h)
\* starts the shape at ((cx - left) * w / dw, (cy - top) * h / dh), and a
\* pointer-move sizes it up to the point mapped the same way: each axis has its
\* own ratio and the device-pixel-ratio multiplier renderScale plays no part.
C27_PointerMapping ==
  [][ \A e \in ClientEvents :
        /\ ClientDown("rect", e)
           => /\ startPoint' # Null /\ MapsExactly(e, startPoint'[1])
              /\ currentAnnotation' # Null
              /\ MapsExactly(e, P(currentAnnotation'[1].x, currentAnnotation'[1].y))
        /\ (ClientMove("rect", e) /\ isDrawing /\ currentAnnotation # Null)
           => MapsExactly(e, P(startPoint[1].x + currentAnnotation'[1].width,
                               startPoint[1].y + currentAnnotation'[1].height)) ]_vars

\* a rectangle was begun away from the client origin, on a canvas displayed
\* off the origin with different ratios on the two axes, on a display with a
\* device-pixel ratio of 2, and was sized by a move
C27_Witness ==
  /\ isDrawing /\ startPoint # Null /\ currentAnnotation # Null
  /\ renderScale = 2
  /\ canvasRect.left # 0 /\ canvasRect.top # 0
  /\ pageSize.width * canvasRect.height # pageSize.height * canvasRect.width
  /\ startPoint[1].x # 0 /\ startPoint[1].y # 0 /\ startPoint[1].x # startPoint[1].y
  /\ currentAnnotation[1].width # 0

\* C28: in mode 'edit' no pointer handler makes the shape list longer,
\* whatever tool the toolbar holds.
C28_EditModeNoDraw ==
  [][ mode = "edit" =>
        \A tool \in Tools, point \in Points :
          (\/ MouseDown(tool, AnyFont, point) \/ MouseMove(tool, point)
           \/ MouseUp(tool) \/ MouseLeave(tool))
          => Len(annotations') <= Len(annotations) ]_vars

\* the details dialog is open for a shape just drawn, which is in the list
ConfirmingNew ==
  /\ showCommentModal /\ newAnnotationId # NullId
  /\ selectedAnnotationId = newAnnotationId
  /\ Has(annotations, newAnnotationId)

\* C29: onAnnotationAdd fires exactly once when the dialog of a shape just
\* drawn is saved, carrying the shape as saved, and fires at no other step: not
\* when the dialog is cancelled, not when an older shape is saved.
C29_AddOnSave ==
  [][ /\ (ConfirmingNew /\ SaveModal)
         => /\ Count(emitted', "added") = 1
            /\ Entry(emitted', "added").ann = Find(annotations', selectedAnnotationId)[1]
      /\ ~(ConfirmingNew /\ SaveModal) => ~Fired(emitted', "added") ]_vars

\* C30: getAnnotations() called after setAnnotations(A), with no other call
\* and no user action in between, returns A, whenever after create the two
\* calls are made.
C30_SetThenGet ==
  [][ (GetAnnotations /\ requested # Null) => returned' = requested ]_vars

\* C34: the layer is never drawing and dragging at once: the drawing flag and
\* the dragged-shape id are not both set.
C34_DrawingXorDragging ==
  ~(isDrawing /\ draggedAnnotationId # NullId)

Placeless(ann) == [ann EXCEPT !.x = 0, !.y = 0, !.points = <<>>]
\* the path q is the path p moved as a whole
MovedPath(p, q) ==
  /\ Len(q) = Len(p)
  /\ \A j, k \in 1..Len(p) :
       q[j].x - p[j].x = q[k].x - p[k].x /\ q[j].y - p[j].y = q[k].y - p[k].y

\* C32: a pointer-move the layer handles while a shape is dragged emits one
\* shape-list-changed and nothing else; the list has the length and the order
\* of the list before; every other shape is as it was; the dragged shape keeps
\* everything but its position: a rect, text or circle changes x and y only, a
\* pen or an arrow has its points moved as a whole and changes nothing else.
\* (Such a move keeps the dragged-shape id, the dialog, the mode and the id
\* counter, which singles out its steps.)
C32_DragMovesOnly ==
  [][ \A tool \in Tools \ {"hand"}, point \in Points :
        (/\ ~readOnly /\ draggedAnnotationId # NullId
         /\ draggedAnnotationId' = draggedAnnotationId /\ showCommentModal' = showCommentModal
         /\ mode' = mode /\ nextId' = nextId
         /\ MouseMove(tool, point))
        => /\ emitted' = <<[cb |-> "change", id |-> NullId, ann |-> Blank]>>
           /\ Len(annotations') = Len(annotations)
           /\ \A i \in 1..Len(annotations) :
                IF annotations[i].id # draggedAnnotationId
                THEN annotations'[i] = annotations[i]
                ELSE /\ Placeless(annotations'[i]) = Placeless(annotations[i])
                     /\ MovedPath(annotations[i].points, annotations'[i].points)
                     /\ annotations[i].type \in {"pen", "arrow"}
                        => annotations'[i].x = annotations[i].x
                           /\ annotations'[i].y = annotations[i].y ]_vars

\* a pen lying over a circle was dragged away from where it was pressed, and
\* the move was the last thing handled
C32_Witness ==
  /\ Len(annotations) = 2 /\ draggedAnnotationId = annotations[2].id
  /\ annotations[1].type = "circle" /\ annotations[2].type = "pen"
  /\ gesture.kind = "drag" /\ annotations[2].points # gesture.trail
  /\ Len(emitted) = 1 /\ emitted[1].cb = "change"

\* C36: the selected id of the host is null or the id of a shape of the list.
C36_SelectionInList ==
  selectedAnnotationId = NullId \/ Has(annotations, selectedAnnotationId)

\* the list without its last shape
Front(anns) == SubSeq(anns, 1, Len(anns) - 1)

\* C38: in mode 'full' the step that opens the details dialog for a shape just
\* drawn has appended that shape to the list and selected it; while that
\* dialog is open the shape stays the last of the list; cancelling the dialog
\* removes exactly that shape, so that the list is the one before the draw,
\* and clears the selection.  Cancelling a dialog opened for a shape that is
\* not new leaves the list and the selection as they are.
C38_CancelUndoesDraw ==
  /\ [](ConfirmingNew =>
          /\ annotations[Len(annotations)].id = newAnnotationId
          /\ \A i \in 1..(Len(annotations) - 1) : annotations[i].id # newAnnotationId)
  /\ [][ /\ (~showCommentModal /\ showCommentModal' /\ newAnnotationId' # NullId)
            => /\ mode = "full"
               /\ Len(annotations') = Len(annotations) + 1
               /\ Front(annotations') = annotations
               /\ annotations'[Len(annotations')].id = newAnnotationId'
               /\ selectedAnnotationId' = newAnnotationId'
         /\ (ConfirmingNew /\ CancelModal)
            => annotations' = Front(annotations) /\ selectedAnnotationId' = NullId
         /\ (showCommentModal /\ newAnnotationId = NullId /\ CancelModal)
            => UNCHANGED <<annotations, selectedAnnotationId>> ]_vars

\* a rectangle was drawn next to the host's rectangle in mode 'full' and its
\* dialog was cancelled
C38_Witness ==
  /\ mode = "full" /\ nextId = 2
  /\ ~showCommentModal /\ newAnnotationId = NullId /\ selectedAnnotationId = NullId
  /\ annotations = <<SessionRect>>
  /\ emitted = <<>> /\ ~isDrawing /\ currentAnnotation = Null

\* the point a shape's draw gesture started at: the anchor of a rect or a
\* circle, the first point of a pen or an arrow
StartOf(ann) == IF HasPoints(ann) THEN ann.points[1] ELSE P(ann.x, ann.y)
\* the shape has an id of the layer: a draw gesture committed it
Drawn(ann) == ann.id \in 1..MaxId /\ ann.type \in DrawTools

\* C35: a select-mode pointer-down at the point where the gesture of a
\* committed shape started selects a shape (that one, or one lying over it).
C35_DrawnSelectable ==
  [][ \A point \in Points :
        (/\ \E i \in 1..Len(annotations) :
              Drawn(annotations[i]) /\ StartOf(annotations[i]) = point
         /\ MouseDown("select", AnyFont, point))
        => selectedAnnotationId' # NullId ]_vars

\* the host's list as it is when a step is taken: the queued updates applied
Now == Pending(allAnnotations, updates)
EmitsChange == \E k \in 1..Len(emitted') : emitted'[k].cb = "change"
\* a step of a pointer handler: it leaves the queue alone or emits a list
LayerStep == updates' = updates \/ EmitsChange
OffPage(all) ==
  SelectSeq(all, LAMBDA a : a.documentId # currentPage.documentId
                            \/ PageOf(a) # currentPage.pageNumber)

\* C31: when a handler emits a list, every shape of the host's list as it is
\* then is still in the host's list afterwards, and every shape of the list
\* afterwards was in it or is a shape the layer made.
C31_EmitsFromHostList ==
  [][ EmitsChange
      => /\ \A i \in 1..Len(Now) : Has(Shapes(allAnnotations'), Now[i].ann.id)
         /\ \A i \in 1..Len(allAnnotations') :
              \/ Has(Shapes(Now), allAnnotations'[i].ann.id)
              \/ allAnnotations'[i].ann.id \in 1..MaxId ]_vars

\* C37: a step of a pointer handler leaves the shapes of the other documents
\* and pages as they are, in their order, and a shape it makes carries the
\* documentId and the page number of the page shown.
C37_OtherPagesKept ==
  [][ LayerStep
      => /\ OffPage(Now') = OffPage(Now)
         /\ \A i \in 1..Len(Now') :
              (Now'[i].ann.id = nextId /\ ~Has(Shapes(Now), nextId))
              => /\ Now'[i].documentId = currentPage.documentId
                 /\ Now'[i].page = currentPage.pageNumber ]_vars
\* on the second page, a shape of the layer next to the rectangle of the
\* first page
C37_Witness ==
  /\ currentPage.pageNumber = SecondPage
  /\ updates = <<>>
  /\ \E i \in 1..Len(allAnnotations) :
       /\ allAnnotations[i].ann.id \in 1..MaxId
       /\ allAnnotations[i].page = SecondPage
  /\ \E i \in 1..Len(allAnnotations) :
       allAnnotations[i] = Placed(SessionRect, "docA", DefaultPage)

====
